---- MODULE Spec2Model ----
(***************************************************************************)
(* A model of the cobs2 crate: Consistent Overhead Byte Stuffing (COBS)    *)
(* and its reduced variant COBS/R.  The one-shot encoders and decoders are *)
(* pure functions of their arguments; each is an operator that follows the *)
(* control flow of the Rust function, and each call is one action of the   *)
(* state machine.  Buffers are sequences: Rust index i is TLA+ index i+1.  *)
(* Spec is one call of one function, PullSpec one lazy iterator whose      *)
(* next() is called again and again, SizeSpec one call of an encode size   *)
(* calculator for any usize argument.                                      *)
(***************************************************************************)
EXTENDS Integers, Sequences, FiniteSets, TLC

(* ---------------------------------------------------------------------- *)
(* Bounds of the model                                                     *)
(* ---------------------------------------------------------------------- *)

\* Longest input drawn exhaustively over ShortBytes.
MaxShortLen == 3
\* Long inputs hold a run of 254 - RunSlack .. 254 + RunSlack equal bytes.
RunSlack == 1
\* Width of usize in bits (Rust supports 16-bit targets).
UsizeBits == 16
\* A long input is tried with buffers of up to LenSlack bytes less than the
\* size calculator gives.
LenSlack == 2

ShortBytes == {0, 1, 2, 3, 5, 254, 255}
EdgeBytes == {0, 1, 254, 255}
RunBytes == {1, 255}
\* Initial contents of a caller's output buffer (main.rs uses 0x55).
FillBytes == {0, 85}

(* ---------------------------------------------------------------------- *)
(* crate::Error and crate::Result                                          *)
(* ---------------------------------------------------------------------- *)

OutputBufferTooSmall == "OutputBufferTooSmall"
ZeroInEncodedData == "ZeroInEncodedData"
TruncatedEncodedData == "TruncatedEncodedData"
\* An out-of-range index or slice: the Rust code panics.
Panic == "Panic"

Ok(bytes) == [status |-> "Ok", out |-> bytes]
Err(e) == [status |-> e, out |-> <<>>]

\* usize::max_value()
usize_max_value == 2^UsizeBits - 1

\* a + b on usize: a sum that does not fit wraps around (a build with
\* overflow checks panics instead, so a correct caller never lets it happen).
usize_add(a, b) == (a + b) % (usize_max_value + 1)

\* out_buf[i] = v, for an index i already known to be in range.
Store(buf, i, v) == [buf EXCEPT ![i + 1] = v]

\* A caller's buffer of out_len bytes, all equal to fill.
NewBuf(out_len, fill) == [i \in 1..out_len |-> fill]

(* ---------------------------------------------------------------------- *)
(* cobs: size calculators                                                  *)
(* ---------------------------------------------------------------------- *)

cobs_encode_min_output_size(input_len) ==
    IF input_len >= usize_max_value - 1
    THEN usize_max_value
    ELSE usize_add(input_len, 1)

\* A faulty variant of cobs_encode_max_output_size: the number of length
\* codes is rounded down, input_len / 254.
cobs_encode_max_output_size_Floor(input_len) ==
    IF input_len = 0 THEN 1
    ELSE IF input_len >= usize_max_value - 253 THEN usize_max_value
    ELSE LET increase == input_len \div 254
         IN IF input_len >= usize_max_value - increase
            THEN usize_max_value
            ELSE usize_add(input_len, increase)

\* A faulty variant of cobs_encode_max_output_size: the sum of input_len and
\* the increase is not tested against usize::max_value() before it is made.
cobs_encode_max_output_size_NoSaturate(input_len) ==
    IF input_len = 0 THEN 1
    ELSE IF input_len >= usize_max_value - 253 THEN usize_max_value
    ELSE LET increase == usize_add(input_len, 253) \div 254
         IN usize_add(input_len, increase)

cobs_encode_max_output_size(input_len) ==
    IF input_len = 0 THEN 1
    ELSE IF input_len >= usize_max_value - 253 THEN usize_max_value
    ELSE LET increase == usize_add(input_len, 253) \div 254
         IN IF input_len >= usize_max_value - increase
            THEN usize_max_value
            ELSE usize_add(input_len, increase)

\* A faulty variant of cobs_decode_min_output_size: the length codes 0xFF,
\* which stand for no zero byte, are not taken off.
cobs_decode_min_output_size_NoFullBlocks(input_len) ==
    IF input_len >= 1
    THEN input_len - 1
    ELSE 0

cobs_decode_min_output_size(input_len) ==
    IF input_len >= 1
    THEN LET increase == (input_len - 1) \div 255
         IN input_len - 1 - increase
    ELSE 0

cobs_decode_max_output_size(input_len) ==
    IF input_len > 1 THEN input_len - 1 ELSE 0

(* ---------------------------------------------------------------------- *)
(* Loops                                                                   *)
(* ---------------------------------------------------------------------- *)

\* The state of a function body while it runs.  status is "Running" until a
\* `return Err(..)`, a `break` ("Break") or a panic ends the loop.
Running == "Running"
Break == "Break"

Return(s, e) == [s EXCEPT !.status = e]

\* `for i in lo..=hi { Body }`: Body is applied to each index in order, and
\* not at all once the state has stopped running.
RECURSIVE ForEach(_, _, _, _)
ForEach(Body(_, _), s, lo, hi) ==
    IF lo > hi THEN s
    ELSE IF lo = hi THEN (IF s.status = Running THEN Body(s, lo) ELSE s)
    ELSE LET mid == (lo + hi) \div 2
             left == ForEach(Body, s, lo, mid)
         IN IF left.status = Running
            THEN ForEach(Body, left, mid + 1, hi)
            ELSE left

(* ---------------------------------------------------------------------- *)
(* cobs::encode_array                                                      *)
(* ---------------------------------------------------------------------- *)

\* A faulty variant of cobs_encode_array_for: a data byte is refused unless
\* a byte more than it needs is free, `out_i + 1 >= out_buf.len()`.
cobs_encode_array_for_Eager(s, x) ==
    LET roll == s.out_i - s.code_i >= 255
        s1 == IF roll
              THEN [s EXCEPT !.out_buf = Store(@, s.code_i, 255),
                             !.code_i = s.out_i,
                             !.out_i = s.out_i + 1]
              ELSE s
    IN IF roll /\ s.code_i >= Len(s.out_buf) THEN Return(s, Panic)
       ELSE IF roll /\ s1.code_i >= Len(s.out_buf)
       THEN Return(s1, OutputBufferTooSmall)
       ELSE IF x = 0
       THEN IF s1.code_i >= Len(s.out_buf) THEN Return(s1, Panic)
            ELSE IF s1.out_i >= Len(s.out_buf)
            THEN Return(s1, OutputBufferTooSmall)
            ELSE [s1 EXCEPT
                    !.out_buf = Store(@, s1.code_i, (s1.out_i - s1.code_i) % 256),
                    !.code_i = s1.out_i,
                    !.out_i = s1.out_i + 1]
       ELSE IF s1.out_i + 1 >= Len(s.out_buf)
            THEN Return(s1, OutputBufferTooSmall)
            ELSE [s1 EXCEPT !.out_buf = Store(@, s1.out_i, x),
                            !.out_i = s1.out_i + 1]

\* The body of `for x in in_buf`.
cobs_encode_array_for(s, x) ==
    LET roll == s.out_i - s.code_i >= 255
        s1 == IF roll
              THEN [s EXCEPT !.out_buf = Store(@, s.code_i, 255),
                             !.code_i = s.out_i,
                             !.out_i = s.out_i + 1]
              ELSE s
    IN IF roll /\ s.code_i >= Len(s.out_buf) THEN Return(s, Panic)
       ELSE IF roll /\ s1.code_i >= Len(s.out_buf)
       THEN Return(s1, OutputBufferTooSmall)
       ELSE IF x = 0
       THEN IF s1.code_i >= Len(s.out_buf) THEN Return(s1, Panic)
            ELSE IF s1.out_i >= Len(s.out_buf)
            THEN Return(s1, OutputBufferTooSmall)
            ELSE [s1 EXCEPT
                    !.out_buf = Store(@, s1.code_i, (s1.out_i - s1.code_i) % 256),
                    !.code_i = s1.out_i,
                    !.out_i = s1.out_i + 1]
       ELSE IF s1.out_i >= Len(s.out_buf)
            THEN Return(s1, OutputBufferTooSmall)
            ELSE [s1 EXCEPT !.out_buf = Store(@, s1.out_i, x),
                            !.out_i = s1.out_i + 1]

\* A faulty variant of cobs_encode_array: the place of the first length code
\* is not checked against out_buf.len() before the loop.
cobs_encode_array_NoReserve(out_buf, in_buf) ==
    LET s == ForEach(LAMBDA t, i : cobs_encode_array_for(t, in_buf[i]),
                     [status |-> Running, out_buf |-> out_buf,
                      code_i |-> 0, out_i |-> 1],
                     1, Len(in_buf))
    IN IF s.status # Running THEN Err(s.status)
       ELSE IF s.code_i >= Len(out_buf) \/ s.out_i > Len(out_buf)
       THEN Err(Panic)
       ELSE Ok(SubSeq(Store(s.out_buf, s.code_i, (s.out_i - s.code_i) % 256),
                      1, s.out_i))

cobs_encode_array(out_buf, in_buf) ==
    IF 0 >= Len(out_buf)
    THEN Err(OutputBufferTooSmall)
    ELSE LET s == ForEach(LAMBDA t, i : cobs_encode_array_for(t, in_buf[i]),
                          [status |-> Running, out_buf |-> out_buf,
                           code_i |-> 0, out_i |-> 1],
                          1, Len(in_buf))
         IN IF s.status # Running THEN Err(s.status)
            ELSE IF s.code_i >= Len(out_buf) \/ s.out_i > Len(out_buf)
            THEN Err(Panic)
            ELSE Ok(SubSeq(Store(s.out_buf, s.code_i,
                                 (s.out_i - s.code_i) % 256),
                           1, s.out_i))

(* ---------------------------------------------------------------------- *)
(* cobs::encode_vector                                                     *)
(* ---------------------------------------------------------------------- *)

\* A faulty variant of cobs_encode_vector_for: code_i is not moved past the
\* 0x01 pushed for a zero that follows a zero.
cobs_encode_vector_for_NoAdvance(s, x) ==
    LET roll == s.run_len = 255
        s1 == IF roll
              THEN [s EXCEPT !.out_vec = Store(@, s.code_i, 255),
                             !.code_i = s.code_i + 255,
                             !.run_len = 0]
              ELSE s
    IN IF roll /\ s.code_i >= Len(s.out_vec) THEN Return(s, Panic)
       ELSE IF x = 0
       THEN IF s1.run_len = 0
            THEN [s1 EXCEPT !.out_vec = Append(@, 1),
                            !.run_len = 0]
            ELSE IF s1.code_i >= Len(s1.out_vec) THEN Return(s1, Panic)
            ELSE [s1 EXCEPT !.out_vec = Store(@, s1.code_i, s1.run_len),
                            !.code_i = s1.code_i + s1.run_len,
                            !.run_len = 0]
       ELSE LET s2 == IF s1.run_len = 0
                      THEN [s1 EXCEPT !.out_vec = Append(@, 255),
                                      !.run_len = 1]
                      ELSE s1
            IN [s2 EXCEPT !.out_vec = Append(@, x),
                          !.run_len = (s2.run_len + 1) % 256]

cobs_encode_vector_for(s, x) ==
    LET roll == s.run_len = 255
        s1 == IF roll
              THEN [s EXCEPT !.out_vec = Store(@, s.code_i, 255),
                             !.code_i = s.code_i + 255,
                             !.run_len = 0]
              ELSE s
    IN IF roll /\ s.code_i >= Len(s.out_vec) THEN Return(s, Panic)
       ELSE IF x = 0
       THEN IF s1.run_len = 0
            THEN [s1 EXCEPT !.out_vec = Append(@, 1),
                            !.code_i = s1.code_i + 1,
                            !.run_len = 0]
            ELSE IF s1.code_i >= Len(s1.out_vec) THEN Return(s1, Panic)
            ELSE [s1 EXCEPT !.out_vec = Store(@, s1.code_i, s1.run_len),
                            !.code_i = s1.code_i + s1.run_len,
                            !.run_len = 0]
       ELSE LET s2 == IF s1.run_len = 0
                      THEN [s1 EXCEPT !.out_vec = Append(@, 255),
                                      !.run_len = 1]
                      ELSE s1
            IN [s2 EXCEPT !.out_vec = Append(@, x),
                          !.run_len = (s2.run_len + 1) % 256]

cobs_encode_vector(in_buf) ==
    LET s == ForEach(LAMBDA t, i : cobs_encode_vector_for(t, in_buf[i]),
                     [status |-> Running, out_vec |-> <<>>,
                      code_i |-> 0, run_len |-> 0],
                     1, Len(in_buf))
    IN IF s.status # Running THEN Err(s.status)
       ELSE IF s.run_len = 0 THEN Ok(Append(s.out_vec, 1))
       ELSE IF s.code_i >= Len(s.out_vec) THEN Err(Panic)
       ELSE Ok(Store(s.out_vec, s.code_i, s.run_len))

(* ---------------------------------------------------------------------- *)
(* cobs::decode_array                                                      *)
(* ---------------------------------------------------------------------- *)

\* The body of `for in_i in (code_i + 1)..(code_i + code)`.
cobs_decode_array_for(s, in_buf, in_i) ==
    IF in_i >= Len(in_buf) THEN Return(s, TruncatedEncodedData)
    ELSE IF in_buf[in_i + 1] = 0 THEN Return(s, ZeroInEncodedData)
    ELSE IF s.out_i >= Len(s.out_buf) THEN Return(s, OutputBufferTooSmall)
    ELSE [s EXCEPT !.out_buf = Store(@, s.out_i, in_buf[in_i + 1]),
                   !.out_i = s.out_i + 1]

\* A faulty variant of cobs_decode_array_loop: the zero between two blocks
\* is refused unless a byte more than it needs is free.
cobs_decode_array_loop_Eager(s, in_buf) ==
    LET code == in_buf[s.code_i + 1]
        s1 == ForEach(LAMBDA t, in_i : cobs_decode_array_for(t, in_buf, in_i),
                      s, s.code_i + 1, s.code_i + code - 1)
        s2 == [s1 EXCEPT !.code_i = s.code_i + code]
    IN IF code = 0 THEN Return(s, ZeroInEncodedData)
       ELSE IF s1.status # Running THEN s1
       ELSE IF s2.code_i >= Len(in_buf) THEN Return(s2, Break)
       ELSE IF code < 255
       THEN IF s2.out_i + 1 >= Len(s2.out_buf)
            THEN Return(s2, OutputBufferTooSmall)
            ELSE [s2 EXCEPT !.out_buf = Store(@, s2.out_i, 0),
                            !.out_i = s2.out_i + 1]
       ELSE s2

\* A faulty variant of cobs_decode_array_loop: the zero between two blocks
\* is not written, as if out_buf were known to hold zeros.
cobs_decode_array_loop_ZeroNotWritten(s, in_buf) ==
    LET code == in_buf[s.code_i + 1]
        s1 == ForEach(LAMBDA t, in_i : cobs_decode_array_for(t, in_buf, in_i),
                      s, s.code_i + 1, s.code_i + code - 1)
        s2 == [s1 EXCEPT !.code_i = s.code_i + code]
    IN IF code = 0 THEN Return(s, ZeroInEncodedData)
       ELSE IF s1.status # Running THEN s1
       ELSE IF s2.code_i >= Len(in_buf) THEN Return(s2, Break)
       ELSE IF code < 255
       THEN IF s2.out_i >= Len(s2.out_buf)
            THEN Return(s2, OutputBufferTooSmall)
            ELSE [s2 EXCEPT !.out_i = s2.out_i + 1]
       ELSE s2

\* The body of `loop`: one length code and its block.
cobs_decode_array_loop(s, in_buf) ==
    LET code == in_buf[s.code_i + 1]
        s1 == ForEach(LAMBDA t, in_i : cobs_decode_array_for(t, in_buf, in_i),
                      s, s.code_i + 1, s.code_i + code - 1)
        s2 == [s1 EXCEPT !.code_i = s.code_i + code]
    IN IF code = 0 THEN Return(s, ZeroInEncodedData)
       ELSE IF s1.status # Running THEN s1
       ELSE IF s2.code_i >= Len(in_buf) THEN Return(s2, Break)
       ELSE IF code < 255
       THEN IF s2.out_i >= Len(s2.out_buf)
            THEN Return(s2, OutputBufferTooSmall)
            ELSE [s2 EXCEPT !.out_buf = Store(@, s2.out_i, 0),
                            !.out_i = s2.out_i + 1]
       ELSE s2

\* `loop` ends by `break` or `return`; every pass moves code_i forward by
\* code >= 1, so there are at most in_buf.len() passes.
cobs_decode_array(out_buf, in_buf) ==
    IF in_buf # <<>>
    THEN LET s == ForEach(LAMBDA t, k : cobs_decode_array_loop(t, in_buf),
                          [status |-> Running, out_buf |-> out_buf,
                           code_i |-> 0, out_i |-> 0],
                          1, Len(in_buf))
         IN IF s.status # Break THEN Err(s.status)
            ELSE Ok(SubSeq(s.out_buf, 1, s.out_i))
    ELSE Ok(<<>>)

(* ---------------------------------------------------------------------- *)
(* cobs::decode_vector                                                     *)
(* ---------------------------------------------------------------------- *)

\* A faulty variant of cobs_decode_vector_for: the end of the input inside
\* a block ends the decoding quietly.
cobs_decode_vector_for_Lenient(s, in_buf, in_i) ==
    IF in_i >= Len(in_buf) THEN Return(s, Break)
    ELSE IF in_buf[in_i + 1] = 0 THEN Return(s, ZeroInEncodedData)
    ELSE [s EXCEPT !.out_vec = Append(@, in_buf[in_i + 1])]

cobs_decode_vector_for(s, in_buf, in_i) ==
    IF in_i >= Len(in_buf) THEN Return(s, TruncatedEncodedData)
    ELSE IF in_buf[in_i + 1] = 0 THEN Return(s, ZeroInEncodedData)
    ELSE [s EXCEPT !.out_vec = Append(@, in_buf[in_i + 1])]

\* A faulty variant of cobs_decode_vector_loop: `code <= 0xFF` for
\* `code < 0xFF`, so a zero is output after a full block as well.
cobs_decode_vector_loop_ZeroAfterFull(s, in_buf) ==
    LET code == in_buf[s.code_i + 1]
        s1 == ForEach(LAMBDA t, in_i : cobs_decode_vector_for(t, in_buf, in_i),
                      s, s.code_i + 1, s.code_i + code - 1)
        s2 == [s1 EXCEPT !.code_i = s.code_i + code]
    IN IF code = 0 THEN Return(s, ZeroInEncodedData)
       ELSE IF s1.status # Running THEN s1
       ELSE IF s2.code_i >= Len(in_buf) THEN Return(s2, Break)
       ELSE IF code <= 255 THEN [s2 EXCEPT !.out_vec = Append(@, 0)]
       ELSE s2

cobs_decode_vector_loop(s, in_buf) ==
    LET code == in_buf[s.code_i + 1]
        s1 == ForEach(LAMBDA t, in_i : cobs_decode_vector_for(t, in_buf, in_i),
                      s, s.code_i + 1, s.code_i + code - 1)
        s2 == [s1 EXCEPT !.code_i = s.code_i + code]
    IN IF code = 0 THEN Return(s, ZeroInEncodedData)
       ELSE IF s1.status # Running THEN s1
       ELSE IF s2.code_i >= Len(in_buf) THEN Return(s2, Break)
       ELSE IF code < 255 THEN [s2 EXCEPT !.out_vec = Append(@, 0)]
       ELSE s2

cobs_decode_vector(in_buf) ==
    IF in_buf # <<>>
    THEN LET s == ForEach(LAMBDA t, k : cobs_decode_vector_loop(t, in_buf),
                          [status |-> Running, out_vec |-> <<>>, code_i |-> 0],
                          1, Len(in_buf))
         IN IF s.status # Break THEN Err(s.status)
            ELSE Ok(s.out_vec)
    ELSE Ok(<<>>)

(* ---------------------------------------------------------------------- *)
(* cobsr: size calculators                                                 *)
(* ---------------------------------------------------------------------- *)

cobsr_encode_min_output_size(input_len) ==
    IF input_len = 0 THEN 1 ELSE input_len

\* A faulty variant of cobsr_encode_max_output_size: the number of length
\* codes is rounded down, input_len / 254.
cobsr_encode_max_output_size_Floor(input_len) ==
    IF input_len = 0 THEN 1
    ELSE IF input_len >= usize_max_value - 253 THEN usize_max_value
    ELSE LET increase == input_len \div 254
         IN IF input_len >= usize_max_value - increase
            THEN usize_max_value
            ELSE usize_add(input_len, increase)

cobsr_encode_max_output_size(input_len) ==
    IF input_len = 0 THEN 1
    ELSE IF input_len >= usize_max_value - 253 THEN usize_max_value
    ELSE LET increase == usize_add(input_len, 253) \div 254
         IN IF input_len >= usize_max_value - increase
            THEN usize_max_value
            ELSE usize_add(input_len, increase)

cobsr_decode_min_output_size(input_len) ==
    IF input_len >= 1
    THEN LET increase == (input_len - 1) \div 255
         IN input_len - 1 - increase
    ELSE 0

cobsr_decode_max_output_size(input_len) == input_len

(* ---------------------------------------------------------------------- *)
(* cobsr::encode_array                                                     *)
(* ---------------------------------------------------------------------- *)

cobsr_encode_array_for(s, x) ==
    LET roll == s.out_i - s.code_i >= 255
        s1 == IF roll
              THEN [s EXCEPT !.out_buf = Store(@, s.code_i, 255),
                             !.code_i = s.out_i,
                             !.out_i = s.out_i + 1]
              ELSE s
    IN IF roll /\ s.code_i >= Len(s.out_buf) THEN Return(s, Panic)
       ELSE IF roll /\ s1.code_i >= Len(s.out_buf)
       THEN Return(s1, OutputBufferTooSmall)
       ELSE IF x = 0
       THEN IF s1.code_i >= Len(s.out_buf) THEN Return(s1, Panic)
            ELSE IF s1.out_i >= Len(s.out_buf)
            THEN Return(s1, OutputBufferTooSmall)
            ELSE [s1 EXCEPT
                    !.out_buf = Store(@, s1.code_i, (s1.out_i - s1.code_i) % 256),
                    !.code_i = s1.out_i,
                    !.out_i = s1.out_i + 1,
                    !.last_value = 0]
       ELSE IF s1.out_i >= Len(s.out_buf)
            THEN Return([s1 EXCEPT !.last_value = x], OutputBufferTooSmall)
            ELSE [s1 EXCEPT !.out_buf = Store(@, s1.out_i, x),
                            !.out_i = s1.out_i + 1,
                            !.last_value = x]

\* A faulty variant of cobsr_encode_array_final: `>` for `>=`, so a last
\* byte equal to the length code is not put in its place.
cobsr_encode_array_final_Strict(s) ==
    IF s.code_i >= Len(s.out_buf) THEN Err(Panic)
    ELSE IF s.last_value > (s.out_i - s.code_i) % 256
    THEN IF s.out_i - 1 > Len(s.out_buf) THEN Err(Panic)
         ELSE Ok(SubSeq(Store(s.out_buf, s.code_i, s.last_value),
                        1, s.out_i - 1))
    ELSE IF s.out_i > Len(s.out_buf) THEN Err(Panic)
         ELSE Ok(SubSeq(Store(s.out_buf, s.code_i, (s.out_i - s.code_i) % 256),
                        1, s.out_i))

\* A faulty variant of cobsr_encode_array_final: the last byte is compared
\* with the number of data bytes of the run instead of with its length code.
cobsr_encode_array_final_OffByOne(s) ==
    IF s.code_i >= Len(s.out_buf) THEN Err(Panic)
    ELSE IF s.last_value >= (s.out_i - s.code_i - 1) % 256
    THEN IF s.out_i - 1 > Len(s.out_buf) THEN Err(Panic)
         ELSE Ok(SubSeq(Store(s.out_buf, s.code_i, s.last_value),
                        1, s.out_i - 1))
    ELSE IF s.out_i > Len(s.out_buf) THEN Err(Panic)
         ELSE Ok(SubSeq(Store(s.out_buf, s.code_i, (s.out_i - s.code_i) % 256),
                        1, s.out_i))

\* The end of cobsr::encode_array: the final code byte, or the last data
\* byte in its place.
cobsr_encode_array_final(s) ==
    IF s.code_i >= Len(s.out_buf) THEN Err(Panic)
    ELSE IF s.last_value >= (s.out_i - s.code_i) % 256
    THEN IF s.out_i - 1 > Len(s.out_buf) THEN Err(Panic)
         ELSE Ok(SubSeq(Store(s.out_buf, s.code_i, s.last_value),
                        1, s.out_i - 1))
    ELSE IF s.out_i > Len(s.out_buf) THEN Err(Panic)
         ELSE Ok(SubSeq(Store(s.out_buf, s.code_i, (s.out_i - s.code_i) % 256),
                        1, s.out_i))

cobsr_encode_array(out_buf, in_buf) ==
    IF 0 >= Len(out_buf)
    THEN Err(OutputBufferTooSmall)
    ELSE LET s == ForEach(LAMBDA t, i : cobsr_encode_array_for(t, in_buf[i]),
                          [status |-> Running, out_buf |-> out_buf,
                           code_i |-> 0, out_i |-> 1, last_value |-> 0],
                          1, Len(in_buf))
         IN IF s.status # Running THEN Err(s.status)
            ELSE cobsr_encode_array_final(s)

(* ---------------------------------------------------------------------- *)
(* cobsr::encode_vector                                                    *)
(* ---------------------------------------------------------------------- *)

\* out_vec.pop()
Pop(vec) == IF vec = <<>> THEN vec ELSE SubSeq(vec, 1, Len(vec) - 1)

cobsr_encode_vector_for(s, x) ==
    LET roll == s.run_len = 255
        s1 == IF roll
              THEN [s EXCEPT !.out_vec = Store(@, s.code_i, 255),
                             !.code_i = s.code_i + 255,
                             !.run_len = 0]
              ELSE s
    IN IF roll /\ s.code_i >= Len(s.out_vec) THEN Return(s, Panic)
       ELSE IF x = 0
       THEN IF s1.run_len = 0
            THEN [s1 EXCEPT !.out_vec = Append(@, 1),
                            !.code_i = s1.code_i + 1,
                            !.run_len = 0,
                            !.last_value = 0]
            ELSE IF s1.code_i >= Len(s1.out_vec) THEN Return(s1, Panic)
            ELSE [s1 EXCEPT !.out_vec = Store(@, s1.code_i, s1.run_len),
                            !.code_i = s1.code_i + s1.run_len,
                            !.run_len = 0,
                            !.last_value = 0]
       ELSE LET s2 == IF s1.run_len = 0
                      THEN [s1 EXCEPT !.out_vec = Append(@, 255),
                                      !.run_len = 1]
                      ELSE s1
            IN [s2 EXCEPT !.out_vec = Append(@, x),
                          !.run_len = (s2.run_len + 1) % 256,
                          !.last_value = x]

\* A faulty variant of cobsr_encode_vector_final: the last byte is compared
\* with the number of data bytes of the run instead of with its length code.
cobsr_encode_vector_final_OffByOne(s) ==
    IF s.run_len = 0 THEN Ok(Append(s.out_vec, 1))
    ELSE IF s.code_i >= Len(s.out_vec) THEN Err(Panic)
    ELSE IF s.last_value >= s.run_len - 1
    THEN Ok(Pop(Store(s.out_vec, s.code_i, s.last_value)))
    ELSE Ok(Store(s.out_vec, s.code_i, s.run_len))

\* The end of cobsr::encode_vector.
cobsr_encode_vector_final(s) ==
    IF s.run_len = 0 THEN Ok(Append(s.out_vec, 1))
    ELSE IF s.code_i >= Len(s.out_vec) THEN Err(Panic)
    ELSE IF s.last_value >= s.run_len
    THEN Ok(Pop(Store(s.out_vec, s.code_i, s.last_value)))
    ELSE Ok(Store(s.out_vec, s.code_i, s.run_len))

cobsr_encode_vector(in_buf) ==
    LET s == ForEach(LAMBDA t, i : cobsr_encode_vector_for(t, in_buf[i]),
                     [status |-> Running, out_vec |-> <<>>,
                      code_i |-> 0, run_len |-> 0, last_value |-> 0],
                     1, Len(in_buf))
    IN IF s.status # Running THEN Err(s.status)
       ELSE cobsr_encode_vector_final(s)

(* ---------------------------------------------------------------------- *)
(* cobsr::decode_array                                                     *)
(* ---------------------------------------------------------------------- *)

\* A faulty variant of cobsr_decode_array_for: a zero is looked for at the
\* length codes only, not among the bytes of a block.
cobsr_decode_array_for_NoZeroCheck(s, in_buf, in_i, code) ==
    IF s.out_i >= Len(s.out_buf) THEN Return(s, OutputBufferTooSmall)
    ELSE IF in_i >= Len(in_buf)
    THEN [s EXCEPT !.out_buf = Store(@, s.out_i, code),
                   !.out_i = s.out_i + 1,
                   !.status = Break]
    ELSE [s EXCEPT !.out_buf = Store(@, s.out_i, in_buf[in_i + 1]),
                   !.out_i = s.out_i + 1]

\* The body of `for in_i in (code_i + 1)..(code_i + code)`; its `break`
\* comes when the length code claims more bytes than remain.
cobsr_decode_array_for(s, in_buf, in_i, code) ==
    IF s.out_i >= Len(s.out_buf) THEN Return(s, OutputBufferTooSmall)
    ELSE IF in_i >= Len(in_buf)
    THEN [s EXCEPT !.out_buf = Store(@, s.out_i, code),
                   !.out_i = s.out_i + 1,
                   !.status = Break]
    ELSE IF in_buf[in_i + 1] = 0 THEN Return(s, ZeroInEncodedData)
    ELSE [s EXCEPT !.out_buf = Store(@, s.out_i, in_buf[in_i + 1]),
                   !.out_i = s.out_i + 1]

cobsr_decode_array_loop(s, in_buf) ==
    LET code == in_buf[s.code_i + 1]
        s1 == ForEach(LAMBDA t, in_i :
                          cobsr_decode_array_for(t, in_buf, in_i, code),
                      s, s.code_i + 1, s.code_i + code - 1)
        s2 == [s1 EXCEPT !.code_i = s.code_i + code, !.status = Running]
    IN IF code = 0 THEN Return(s, ZeroInEncodedData)
       ELSE IF s1.status \notin {Running, Break} THEN s1
       ELSE IF s2.code_i >= Len(in_buf) THEN Return(s2, Break)
       ELSE IF code < 255
       THEN IF s2.out_i >= Len(s2.out_buf)
            THEN Return(s2, OutputBufferTooSmall)
            ELSE [s2 EXCEPT !.out_buf = Store(@, s2.out_i, 0),
                            !.out_i = s2.out_i + 1]
       ELSE s2

cobsr_decode_array(out_buf, in_buf) ==
    IF in_buf # <<>>
    THEN LET s == ForEach(LAMBDA t, k : cobsr_decode_array_loop(t, in_buf),
                          [status |-> Running, out_buf |-> out_buf,
                           code_i |-> 0, out_i |-> 0],
                          1, Len(in_buf))
         IN IF s.status # Break THEN Err(s.status)
            ELSE Ok(SubSeq(s.out_buf, 1, s.out_i))
    ELSE Ok(<<>>)

(* ---------------------------------------------------------------------- *)
(* cobsr::decode_vector                                                    *)
(* ---------------------------------------------------------------------- *)

\* A faulty variant of cobsr_decode_vector_for: at the end of the input the
\* length code is not output.
cobsr_decode_vector_for_NoCode(s, in_buf, in_i, code) ==
    IF in_i >= Len(in_buf) THEN Return(s, Break)
    ELSE IF in_buf[in_i + 1] = 0 THEN Return(s, ZeroInEncodedData)
    ELSE [s EXCEPT !.out_vec = Append(@, in_buf[in_i + 1])]

cobsr_decode_vector_for(s, in_buf, in_i, code) ==
    IF in_i >= Len(in_buf)
    THEN [s EXCEPT !.out_vec = Append(@, code), !.status = Break]
    ELSE IF in_buf[in_i + 1] = 0 THEN Return(s, ZeroInEncodedData)
    ELSE [s EXCEPT !.out_vec = Append(@, in_buf[in_i + 1])]

\* A faulty variant of cobsr_decode_vector_loop: the block's range of
\* indices is inclusive, `..=(code_i + code)`.
cobsr_decode_vector_loop_Inclusive(s, in_buf) ==
    LET code == in_buf[s.code_i + 1]
        s1 == ForEach(LAMBDA t, in_i :
                          cobsr_decode_vector_for(t, in_buf, in_i, code),
                      s, s.code_i + 1, s.code_i + code)
        s2 == [s1 EXCEPT !.code_i = s.code_i + code, !.status = Running]
    IN IF code = 0 THEN Return(s, ZeroInEncodedData)
       ELSE IF s1.status \notin {Running, Break} THEN s1
       ELSE IF s2.code_i >= Len(in_buf) THEN Return(s2, Break)
       ELSE IF code < 255 THEN [s2 EXCEPT !.out_vec = Append(@, 0)]
       ELSE s2

cobsr_decode_vector_loop(s, in_buf) ==
    LET code == in_buf[s.code_i + 1]
        s1 == ForEach(LAMBDA t, in_i :
                          cobsr_decode_vector_for(t, in_buf, in_i, code),
                      s, s.code_i + 1, s.code_i + code - 1)
        s2 == [s1 EXCEPT !.code_i = s.code_i + code, !.status = Running]
    IN IF code = 0 THEN Return(s, ZeroInEncodedData)
       ELSE IF s1.status \notin {Running, Break} THEN s1
       ELSE IF s2.code_i >= Len(in_buf) THEN Return(s2, Break)
       ELSE IF code < 255 THEN [s2 EXCEPT !.out_vec = Append(@, 0)]
       ELSE s2

cobsr_decode_vector(in_buf) ==
    IF in_buf # <<>>
    THEN LET s == ForEach(LAMBDA t, k : cobsr_decode_vector_loop(t, in_buf),
                          [status |-> Running, out_vec |-> <<>>, code_i |-> 0],
                          1, Len(in_buf))
         IN IF s.status # Break THEN Err(s.status)
            ELSE Ok(s.out_vec)
    ELSE Ok(<<>>)

(* ---------------------------------------------------------------------- *)
(* Iterators                                                               *)
(* ---------------------------------------------------------------------- *)

\* Option::None of an Option<u8>; Some(x) is the byte x itself.
None == -1
\* in_lookahead: None of the outer Option<Option<u8>>.
NoLookahead == -2

\* in_iter.next() of an iterator over in_buf that has yielded pos items: a
\* slice iterator keeps returning None once it is exhausted.
InIterNext(it) ==
    IF it.pos < Len(it.in_buf)
    THEN [it |-> [it EXCEPT !.pos = @ + 1], item |-> it.in_buf[it.pos + 1]]
    ELSE [it |-> it, item |-> None]

\* `return item` out of next().
Yield(s, it, item) == [s EXCEPT !.status = "Return", !.it = it, !.item = item]

(* ---------------------------------------------------------------------- *)
(* cobs::EncodeIterator (encode_iter, and encode_ref_iter over copied())   *)
(* ---------------------------------------------------------------------- *)

cobs_EncodeIterator_new(in_buf) ==
    [in_buf |-> in_buf, pos |-> 0, eof |-> FALSE, last_run_0xff |-> FALSE,
     hold_write_i |-> 0, hold_read_i |-> 0, hold_buf |-> [i \in 1..255 |-> 1]]

\* A faulty variant of cobs_EncodeIterator_loop: the length code yielded is
\* hold_write_i, the number of bytes held, instead of hold_write_i + 1.
cobs_EncodeIterator_loop_CodeIsCount(s) ==
    LET it == s.it
        n == InIterNext(it)
        byte_val == IF n.item = None THEN 0 ELSE n.item
        it1 == [n.it EXCEPT !.eof = it.eof \/ n.item = None,
                            !.last_run_0xff = FALSE]
    IN IF it.hold_write_i = 254
       THEN Yield(s, [it EXCEPT !.last_run_0xff = TRUE], 255)
       ELSE IF it.last_run_0xff /\ it1.eof THEN Yield(s, it1, None)
       ELSE IF byte_val = 0 THEN Yield(s, it1, it1.hold_write_i)
       ELSE IF it1.hold_write_i >= 255 THEN Return(s, Panic)
       ELSE [s EXCEPT !.it = [it1 EXCEPT
                !.hold_buf = Store(@, it1.hold_write_i, byte_val),
                !.hold_write_i = (it1.hold_write_i + 1) % 256]]

\* A faulty variant of cobs_EncodeIterator_loop: the end of the input right
\* after a full block is not told from a zero, so a 0x01 follows the block.
cobs_EncodeIterator_loop_TrailingOne(s) ==
    LET it == s.it
        n == InIterNext(it)
        byte_val == IF n.item = None THEN 0 ELSE n.item
        it1 == [n.it EXCEPT !.eof = it.eof \/ n.item = None,
                            !.last_run_0xff = FALSE]
    IN IF it.hold_write_i = 254
       THEN Yield(s, [it EXCEPT !.last_run_0xff = TRUE], 255)
       ELSE IF byte_val = 0 THEN Yield(s, it1, (it1.hold_write_i + 1) % 256)
       ELSE IF it1.hold_write_i >= 255 THEN Return(s, Panic)
       ELSE [s EXCEPT !.it = [it1 EXCEPT
                !.hold_buf = Store(@, it1.hold_write_i, byte_val),
                !.hold_write_i = (it1.hold_write_i + 1) % 256]]

\* A faulty variant of cobs_EncodeIterator_loop: a block is closed when 255
\* bytes are held, not 254.
cobs_EncodeIterator_loop_CapOffByOne(s) ==
    LET it == s.it
        n == InIterNext(it)
        byte_val == IF n.item = None THEN 0 ELSE n.item
        it1 == [n.it EXCEPT !.eof = it.eof \/ n.item = None,
                            !.last_run_0xff = FALSE]
    IN IF it.hold_write_i = 255
       THEN Yield(s, [it EXCEPT !.last_run_0xff = TRUE], 255)
       ELSE IF it.last_run_0xff /\ it1.eof THEN Yield(s, it1, None)
       ELSE IF byte_val = 0 THEN Yield(s, it1, (it1.hold_write_i + 1) % 256)
       ELSE IF it1.hold_write_i >= 255 THEN Return(s, Panic)
       ELSE [s EXCEPT !.it = [it1 EXCEPT
                !.hold_buf = Store(@, it1.hold_write_i, byte_val),
                !.hold_write_i = (it1.hold_write_i + 1) % 256]]

\* One pass of the `loop` in cobs::EncodeIterator::next.
cobs_EncodeIterator_loop(s) ==
    LET it == s.it
        n == InIterNext(it)
        byte_val == IF n.item = None THEN 0 ELSE n.item
        it1 == [n.it EXCEPT !.eof = it.eof \/ n.item = None,
                            !.last_run_0xff = FALSE]
    IN IF it.hold_write_i = 254
       THEN Yield(s, [it EXCEPT !.last_run_0xff = TRUE], 255)
       ELSE IF it.last_run_0xff /\ it1.eof THEN Yield(s, it1, None)
       ELSE IF byte_val = 0 THEN Yield(s, it1, (it1.hold_write_i + 1) % 256)
       ELSE IF it1.hold_write_i >= 255 THEN Return(s, Panic)
       ELSE [s EXCEPT !.it = [it1 EXCEPT
                !.hold_buf = Store(@, it1.hold_write_i, byte_val),
                !.hold_write_i = (it1.hold_write_i + 1) % 256]]

\* A faulty variant of cobs_EncodeIterator_next: eof is not tested before
\* the loop, so the calls after the last item go on reading the input.
cobs_EncodeIterator_next_NoEof(it) ==
    IF it.hold_write_i # 0 /\ it.hold_read_i < it.hold_write_i
    THEN [it |-> [it EXCEPT !.hold_read_i = @ + 1],
          item |-> it.hold_buf[it.hold_read_i + 1], panic |-> FALSE]
    ELSE LET it1 == IF it.hold_write_i # 0
                    THEN [it EXCEPT !.hold_read_i = 0, !.hold_write_i = 0]
                    ELSE it
             s == ForEach(LAMBDA t, k : cobs_EncodeIterator_loop(t),
                          [status |-> Running, it |-> it1, item |-> None],
                          1, 255)
         IN [it |-> s.it, item |-> s.item, panic |-> s.status = Panic]

\* cobs::EncodeIterator::next: the iterator after the call, the item it
\* returned, and whether it panicked on an index out of range instead.  The
\* loop returns within 255 passes: each pass that does not return adds a
\* byte to hold_buf, and the pass at hold_write_i = 0xFE returns.
cobs_EncodeIterator_next(it) ==
    IF it.hold_write_i # 0 /\ it.hold_read_i < it.hold_write_i
    THEN [it |-> [it EXCEPT !.hold_read_i = @ + 1],
          item |-> it.hold_buf[it.hold_read_i + 1], panic |-> FALSE]
    ELSE LET it1 == IF it.hold_write_i # 0
                    THEN [it EXCEPT !.hold_read_i = 0, !.hold_write_i = 0]
                    ELSE it
             s == ForEach(LAMBDA t, k : cobs_EncodeIterator_loop(t),
                          [status |-> Running, it |-> it1, item |-> None],
                          1, 255)
         IN IF it1.eof THEN [it |-> it1, item |-> None, panic |-> FALSE]
            ELSE [it |-> s.it, item |-> s.item, panic |-> s.status = Panic]

(* ---------------------------------------------------------------------- *)
(* cobsr::EncodeIterator (encode_iter) and cobsr::EncodeRefIterator        *)
(* ---------------------------------------------------------------------- *)

cobsr_EncodeIterator_new(in_buf) ==
    [in_buf |-> in_buf, pos |-> 0, in_lookahead |-> NoLookahead,
     eof |-> FALSE, last_run_0xff |-> FALSE,
     hold_write_i |-> 0, hold_read_i |-> 0, hold_buf |-> [i \in 1..255 |-> 1]]

\* A faulty variant of cobsr_EncodeIterator_loop: the byte read ahead at the
\* end of a full block is not kept in in_lookahead.
cobsr_EncodeIterator_loop_NoLookahead(s) ==
    LET it == s.it
        look == InIterNext(it)
        n == IF it.in_lookahead # NoLookahead
             THEN [it |-> [it EXCEPT !.in_lookahead = NoLookahead],
                   item |-> it.in_lookahead]
             ELSE InIterNext(it)
        byte_val == IF n.item = None THEN 0 ELSE n.item
        it1 == [n.it EXCEPT !.eof = it.eof \/ n.item = None,
                            !.last_run_0xff = FALSE]
        run_len == (it1.hold_write_i + 1) % 256
    IN IF it.hold_write_i = 254
       THEN Yield(s,
                  [look.it EXCEPT
                     !.last_run_0xff = TRUE,
                     !.eof = it.eof \/ look.item = None,
                     !.hold_write_i =
                         IF look.item = None /\ s.last_byte >= 255
                         THEN @ - 1 ELSE @],
                  255)
       ELSE IF it.last_run_0xff /\ it1.eof THEN Yield(s, it1, None)
       ELSE IF byte_val = 0
       THEN IF it1.eof /\ it1.hold_write_i > 0 /\ s.last_byte >= run_len
            THEN Yield(s, [it1 EXCEPT !.hold_write_i = @ - 1], s.last_byte)
            ELSE Yield(s, it1, run_len)
       ELSE IF it1.hold_write_i >= 255 THEN Return(s, Panic)
       ELSE [s EXCEPT !.last_byte = byte_val,
                      !.it = [it1 EXCEPT
                         !.hold_buf = Store(@, it1.hold_write_i, byte_val),
                         !.hold_write_i = (it1.hold_write_i + 1) % 256]]

\* One pass of the `loop` in cobsr::EncodeIterator::next; last_byte is the
\* local variable of next().
cobsr_EncodeIterator_loop(s) ==
    LET it == s.it
        look == InIterNext(it)
        n == IF it.in_lookahead # NoLookahead
             THEN [it |-> [it EXCEPT !.in_lookahead = NoLookahead],
                   item |-> it.in_lookahead]
             ELSE InIterNext(it)
        byte_val == IF n.item = None THEN 0 ELSE n.item
        it1 == [n.it EXCEPT !.eof = it.eof \/ n.item = None,
                            !.last_run_0xff = FALSE]
        run_len == (it1.hold_write_i + 1) % 256
    IN IF it.hold_write_i = 254
       THEN Yield(s,
                  [look.it EXCEPT
                     !.last_run_0xff = TRUE,
                     !.eof = it.eof \/ look.item = None,
                     !.hold_write_i =
                         IF look.item = None /\ s.last_byte >= 255
                         THEN @ - 1 ELSE @,
                     !.in_lookahead = look.item],
                  255)
       ELSE IF it.last_run_0xff /\ it1.eof THEN Yield(s, it1, None)
       ELSE IF byte_val = 0
       THEN IF it1.eof /\ it1.hold_write_i > 0 /\ s.last_byte >= run_len
            THEN Yield(s, [it1 EXCEPT !.hold_write_i = @ - 1], s.last_byte)
            ELSE Yield(s, it1, run_len)
       ELSE IF it1.hold_write_i >= 255 THEN Return(s, Panic)
       ELSE [s EXCEPT !.last_byte = byte_val,
                      !.it = [it1 EXCEPT
                         !.hold_buf = Store(@, it1.hold_write_i, byte_val),
                         !.hold_write_i = (it1.hold_write_i + 1) % 256]]

cobsr_EncodeIterator_next(it) ==
    IF it.hold_write_i # 0 /\ it.hold_read_i < it.hold_write_i
    THEN [it |-> [it EXCEPT !.hold_read_i = @ + 1],
          item |-> it.hold_buf[it.hold_read_i + 1], panic |-> FALSE]
    ELSE LET it1 == IF it.hold_write_i # 0
                    THEN [it EXCEPT !.hold_read_i = 0, !.hold_write_i = 0]
                    ELSE it
             s == ForEach(LAMBDA t, k : cobsr_EncodeIterator_loop(t),
                          [status |-> Running, it |-> it1, item |-> None,
                           last_byte |-> 0],
                          1, 255)
         IN IF it1.eof THEN [it |-> it1, item |-> None, panic |-> FALSE]
            ELSE [it |-> s.it, item |-> s.item, panic |-> s.status = Panic]

(* ---------------------------------------------------------------------- *)
(* Iterator::size_hint of the lazy encoders                                *)
(* ---------------------------------------------------------------------- *)

\* self.in_iter.size_hint() of an iterator over in_buf that has yielded pos
\* items: exact, (remaining, Some(remaining)).
InIterSizeHint(it) ==
    [lo |-> Len(it.in_buf) - it.pos, hi |-> Len(it.in_buf) - it.pos]

cobs_encode_size_hint(in_hint) ==
    [lo |-> cobs_encode_min_output_size(in_hint.lo),
     hi |-> cobs_encode_max_output_size(in_hint.hi)]

cobs_EncodeIterator_size_hint(it) ==
    cobs_encode_size_hint(InIterSizeHint(it))

cobsr_encode_size_hint(in_hint) ==
    [lo |-> cobsr_encode_min_output_size(in_hint.lo),
     hi |-> cobsr_encode_max_output_size(in_hint.hi)]

cobsr_EncodeIterator_size_hint(it) ==
    cobsr_encode_size_hint(InIterSizeHint(it))

(* ---------------------------------------------------------------------- *)
(* Iterator::collect() into a Vec<u8>                                      *)
(* ---------------------------------------------------------------------- *)

\* One pull of collect(): the first None ends it.
CollectPull(ItNext(_), s) ==
    LET r == ItNext(s.it)
    IN IF r.panic THEN Return(s, Panic)
       ELSE IF r.item = None THEN Return(s, Break)
       ELSE [s EXCEPT !.it = r.it, !.out = Append(@, r.item)]

\* The items an iterator yields up to its first None, for an iterator that
\* yields at most max items; Err("Running") if it yields more.
Collect(ItNext(_), it, max) ==
    LET s == ForEach(LAMBDA t, k : CollectPull(ItNext, t),
                     [status |-> Running, it |-> it, out |-> <<>>],
                     1, max + 1)
    IN IF s.status = Break THEN Ok(s.out) ELSE Err(s.status)

\* cobs::encode_iter(in_buf.into_iter()).collect()
cobs_encode_iter(in_buf) ==
    Collect(cobs_EncodeIterator_next, cobs_EncodeIterator_new(in_buf),
            cobs_encode_max_output_size(Len(in_buf)))

\* cobsr::encode_iter(in_buf.into_iter()).collect()
cobsr_encode_iter(in_buf) ==
    Collect(cobsr_EncodeIterator_next, cobsr_EncodeIterator_new(in_buf),
            cobsr_encode_max_output_size(Len(in_buf)))

(* ---------------------------------------------------------------------- *)
(* cobs::DecodeIterator (decode_iter, and decode_ref_iter over copied())   *)
(* ---------------------------------------------------------------------- *)

cobs_DecodeIterator_new(in_buf) ==
    [in_buf |-> in_buf, pos |-> 0, eof |-> FALSE, last_run |-> 0,
     count_run |-> 0]

\* A faulty variant of cobs_DecodeIterator_loop: `last_run != 0xFF` is not
\* tested, so a zero is yielded after a full block as well.
cobs_DecodeIterator_loop_ZeroAfterFull(s) ==
    LET it == s.it
        n == InIterNext(it)
        byte_val == IF n.item = None THEN 0 ELSE n.item
        it1 == [n.it EXCEPT !.last_run = byte_val,
                            !.count_run = (byte_val - 1) % 256]
    IN IF byte_val = 0 THEN Yield(s, n.it, None)
       ELSE IF it.count_run = 0
       THEN IF it.last_run # 0
            THEN Yield(s, it1, 0)
            ELSE [s EXCEPT !.it = it1]
       ELSE Yield(s, [n.it EXCEPT !.count_run = (@ - 1) % 256], byte_val)

\* One pass of the `loop` in cobs::DecodeIterator::next.
cobs_DecodeIterator_loop(s) ==
    LET it == s.it
        n == InIterNext(it)
        byte_val == IF n.item = None THEN 0 ELSE n.item
        it1 == [n.it EXCEPT !.last_run = byte_val,
                            !.count_run = (byte_val - 1) % 256]
    IN IF byte_val = 0 THEN Yield(s, n.it, None)
       ELSE IF it.count_run = 0
       THEN IF it.last_run # 0 /\ it.last_run # 255
            THEN Yield(s, it1, 0)
            ELSE [s EXCEPT !.it = it1]
       ELSE Yield(s, [n.it EXCEPT !.count_run = (@ - 1) % 256], byte_val)

\* cobs::DecodeIterator::next.  The loop returns within two passes: a pass
\* that does not return has read a length code, and the pass after it reads
\* a byte of its block, or, if the block is empty (code 0x01), the next
\* code, for which it yields the zero between the blocks.
cobs_DecodeIterator_next(it) ==
    LET s == ForEach(LAMBDA t, k : cobs_DecodeIterator_loop(t),
                     [status |-> Running, it |-> it, item |-> None], 1, 2)
    IN [it |-> s.it, item |-> s.item, panic |-> s.status # "Return"]

(* ---------------------------------------------------------------------- *)
(* cobs::DecodeResultIterator (decode_result_iter, decode_result_ref_iter) *)
(* ---------------------------------------------------------------------- *)

cobs_DecodeResultIterator_new(in_buf) ==
    [in_buf |-> in_buf, pos |-> 0, eof |-> FALSE, last_run |-> 0,
     count_run |-> 0]

\* `return Some(Err(e))` out of next().
YieldErr(s, it, e) == [s EXCEPT !.status = "Return", !.it = it, !.err = e]

\* A faulty variant of cobs_DecodeResultIterator_loop: the end of the input
\* ends the sequence whether or not a block is unfinished.
cobs_DecodeResultIterator_loop_Lenient(s) ==
    LET it == s.it
        n == InIterNext(it)
        byte_val == n.item
        it1 == [n.it EXCEPT !.last_run = byte_val,
                            !.count_run = (byte_val - 1) % 256]
    IN IF it.eof THEN Yield(s, it, None)
       ELSE IF n.item = None
       THEN Yield(s, [n.it EXCEPT !.eof = TRUE], None)
       ELSE IF byte_val = 0
       THEN YieldErr(s, [n.it EXCEPT !.eof = TRUE], ZeroInEncodedData)
       ELSE IF it.count_run = 0
       THEN IF it.last_run # 0 /\ it.last_run # 255
            THEN Yield(s, it1, 0)
            ELSE [s EXCEPT !.it = it1]
       ELSE Yield(s, [n.it EXCEPT !.count_run = (@ - 1) % 256], byte_val)

\* A faulty variant of cobs_DecodeResultIterator_loop: eof is not set when
\* the error for a zero byte is yielded, so the next call reads on.
cobs_DecodeResultIterator_loop_NoEof(s) ==
    LET it == s.it
        n == InIterNext(it)
        byte_val == n.item
        it1 == [n.it EXCEPT !.last_run = byte_val,
                            !.count_run = (byte_val - 1) % 256]
    IN IF it.eof THEN Yield(s, it, None)
       ELSE IF n.item = None
       THEN IF it.count_run # 0
            THEN YieldErr(s, [n.it EXCEPT !.eof = TRUE], TruncatedEncodedData)
            ELSE Yield(s, [n.it EXCEPT !.eof = TRUE], None)
       ELSE IF byte_val = 0
       THEN YieldErr(s, n.it, ZeroInEncodedData)
       ELSE IF it.count_run = 0
       THEN IF it.last_run # 0 /\ it.last_run # 255
            THEN Yield(s, it1, 0)
            ELSE [s EXCEPT !.it = it1]
       ELSE Yield(s, [n.it EXCEPT !.count_run = (@ - 1) % 256], byte_val)

\* One pass of the `loop` in cobs::DecodeResultIterator::next.
cobs_DecodeResultIterator_loop(s) ==
    LET it == s.it
        n == InIterNext(it)
        byte_val == n.item
        it1 == [n.it EXCEPT !.last_run = byte_val,
                            !.count_run = (byte_val - 1) % 256]
    IN IF it.eof THEN Yield(s, it, None)
       ELSE IF n.item = None
       THEN IF it.count_run # 0
            THEN YieldErr(s, [n.it EXCEPT !.eof = TRUE], TruncatedEncodedData)
            ELSE Yield(s, [n.it EXCEPT !.eof = TRUE], None)
       ELSE IF byte_val = 0
       THEN YieldErr(s, [n.it EXCEPT !.eof = TRUE], ZeroInEncodedData)
       ELSE IF it.count_run = 0
       THEN IF it.last_run # 0 /\ it.last_run # 255
            THEN Yield(s, it1, 0)
            ELSE [s EXCEPT !.it = it1]
       ELSE Yield(s, [n.it EXCEPT !.count_run = (@ - 1) % 256], byte_val)

\* cobs::DecodeResultIterator::next: item is the byte of Some(Ok(byte)) or
\* None; err is the error of Some(Err(error)), "Ok" otherwise.
cobs_DecodeResultIterator_next(it) ==
    LET s == ForEach(LAMBDA t, k : cobs_DecodeResultIterator_loop(t),
                     [status |-> Running, it |-> it, item |-> None,
                      err |-> "Ok"],
                     1, 2)
    IN [it |-> s.it, item |-> s.item, err |-> s.err,
        panic |-> s.status # "Return"]

(* ---------------------------------------------------------------------- *)
(* cobsr::DecodeIterator (decode_iter) and cobsr::DecodeRefIterator        *)
(* ---------------------------------------------------------------------- *)

cobsr_DecodeIterator_new(in_buf) ==
    [in_buf |-> in_buf, pos |-> 0, eof |-> FALSE, last_run |-> 0,
     count_run |-> 0]

\* A faulty variant of cobsr_DecodeIterator_loop: a zero byte is skipped
\* like a byte that carries nothing, and decoding goes on after it.
cobsr_DecodeIterator_loop_SkipZero(s) ==
    LET it == s.it
        n == InIterNext(it)
        byte_val == IF n.item = None THEN 0 ELSE n.item
        it1 == [n.it EXCEPT !.last_run = byte_val,
                            !.count_run = (byte_val - 1) % 256]
    IN IF it.eof THEN Yield(s, [it EXCEPT !.eof = FALSE], None)
       ELSE IF n.item = None
       THEN IF it.count_run # 0
            THEN Yield(s, [n.it EXCEPT !.eof = TRUE], it.last_run)
            ELSE Yield(s, n.it, None)
       ELSE IF byte_val = 0
       THEN Yield(s, n.it, 0)
       ELSE IF it.count_run = 0
       THEN IF it.last_run # 0 /\ it.last_run # 255
            THEN Yield(s, it1, 0)
            ELSE [s EXCEPT !.it = it1]
       ELSE Yield(s, [n.it EXCEPT !.count_run = (@ - 1) % 256], byte_val)

\* One pass of the `loop` in cobsr::DecodeIterator::next.
cobsr_DecodeIterator_loop(s) ==
    LET it == s.it
        n == InIterNext(it)
        byte_val == IF n.item = None THEN 0 ELSE n.item
        it1 == [n.it EXCEPT !.last_run = byte_val,
                            !.count_run = (byte_val - 1) % 256]
    IN IF it.eof THEN Yield(s, [it EXCEPT !.eof = FALSE], None)
       ELSE IF byte_val = 0
       THEN IF it.count_run # 0
            THEN Yield(s, [n.it EXCEPT !.eof = TRUE], it.last_run)
            ELSE Yield(s, n.it, None)
       ELSE IF it.count_run = 0
       THEN IF it.last_run # 0 /\ it.last_run # 255
            THEN Yield(s, it1, 0)
            ELSE [s EXCEPT !.it = it1]
       ELSE Yield(s, [n.it EXCEPT !.count_run = (@ - 1) % 256], byte_val)

cobsr_DecodeIterator_next(it) ==
    LET s == ForEach(LAMBDA t, k : cobsr_DecodeIterator_loop(t),
                     [status |-> Running, it |-> it, item |-> None], 1, 2)
    IN [it |-> s.it, item |-> s.item, panic |-> s.status # "Return"]

(* ---------------------------------------------------------------------- *)
(* Collecting the lazy decoders                                            *)
(* ---------------------------------------------------------------------- *)

\* One pull of collect() into a Result<Vec<u8>>: the first None ends it
\* with Ok, the first Some(Err(e)) with Err(e).
CollectResultPull(ItNext(_), s) ==
    LET r == ItNext(s.it)
    IN IF r.panic THEN Return(s, Panic)
       ELSE IF r.err # "Ok" THEN Return(s, r.err)
       ELSE IF r.item = None THEN Return(s, Break)
       ELSE [s EXCEPT !.it = r.it, !.out = Append(@, r.item)]

CollectResult(ItNext(_), it, max) ==
    LET s == ForEach(LAMBDA t, k : CollectResultPull(ItNext, t),
                     [status |-> Running, it |-> it, out |-> <<>>],
                     1, max + 1)
    IN IF s.status = Break THEN Ok(s.out) ELSE Err(s.status)

\* cobs::decode_iter(in_buf.into_iter()).collect(): a decoder yields at most
\* one item for each byte it reads.
cobs_decode_iter(in_buf) ==
    Collect(cobs_DecodeIterator_next, cobs_DecodeIterator_new(in_buf),
            Len(in_buf))

\* cobsr::decode_iter(in_buf.into_iter()).collect()
cobsr_decode_iter(in_buf) ==
    Collect(cobsr_DecodeIterator_next, cobsr_DecodeIterator_new(in_buf),
            Len(in_buf))

\* cobs::decode_result_iter(in_buf.into_iter()).collect::<Result<Vec<u8>>>()
cobs_decode_result_iter(in_buf) ==
    CollectResult(cobs_DecodeResultIterator_next,
                  cobs_DecodeResultIterator_new(in_buf), Len(in_buf))

(* ---------------------------------------------------------------------- *)
(* The state machine: one call of one function per behaviour (Spec), or    *)
(* one lazy iterator pulled call by call (PullSpec), or one call of a size *)
(* calculator (SizeSpec)                                                   *)
(* ---------------------------------------------------------------------- *)

VARIABLES
    in_buf,     \* the caller's input bytes
    op,         \* the function called, "idle" before the call
    out_len,    \* out_buf.len() of an array call, 0 for a vector call
    fill,       \* what the caller's out_buf held before an array call
    res,        \* the Result the call returned
    iter,       \* the lazy iterator being pulled, NoIterator if there is none
    pull,       \* what the calls of iter.next() so far returned
    input_len,  \* the argument of a call of a size calculator, 0 if none
    size        \* what the size calculator returned

vars == <<in_buf, op, out_len, fill, res, iter, pull, input_len, size>>

\* A behaviour of single calls constructs no iterator.
NoIterator == [in_buf |-> <<>>, pos |-> 0]

\* Before the first call of next(): n calls made, the item (or err) and the
\* panic flag of the last call, the input items it read, whether a call has
\* returned end-of-sequence (None, or Some(Err(..)) of a checked decoder)
\* yet, and how many calls were made after that.
NoPulls ==
    [n |-> 0, item |-> None, err |-> "Ok", panic |-> FALSE, read |-> 0,
     ended |-> FALSE, extra |-> 0]

SeqsUpTo(S, n) == UNION {[1..k -> S] : k \in 0..n}

Run(b, n) == [i \in 1..n |-> b]

ShortInputs == SeqsUpTo(ShortBytes, MaxShortLen)

\* What comes before and after the long run: nothing, one edge byte, or
\* (after it) a zero or a 0x01 and one more byte.
Prefixes == {<<>>} \cup {<<b>> : b \in EdgeBytes}
Suffixes == Prefixes \cup {<<0, b>> : b \in EdgeBytes} \cup {<<1, 1>>}

LongInputs ==
    {p \o Run(b, n) \o s :
        p \in Prefixes,
        b \in RunBytes,
        n \in (254 - RunSlack)..(254 + RunSlack),
        s \in Suffixes}

Inputs == ShortInputs \cup LongInputs

\* The buffer sizes a caller tries for an input whose largest possible
\* output is max bytes: every size up to max + 1 for a short input, the
\* sizes from max - LenSlack to max for a long one.
OutLens(input, max) ==
    IF Len(input) <= MaxShortLen
    THEN 0..(max + 1)
    ELSE (max - LenSlack)..max

Init ==
    /\ in_buf \in Inputs
    /\ op = "idle"
    /\ out_len = 0
    /\ fill = 0
    /\ res = Ok(<<>>)
    /\ iter = NoIterator
    /\ pull = NoPulls
    /\ input_len = 0
    /\ size = 0

CobsEncodeArray ==
    /\ op = "idle"
    /\ \E len \in OutLens(in_buf, cobs_encode_max_output_size(Len(in_buf))),
          f \in FillBytes :
        /\ out_len' = len
        /\ fill' = f
        /\ res' = cobs_encode_array(NewBuf(len, f), in_buf)
    /\ op' = "cobs_encode_array"
    /\ UNCHANGED <<in_buf, iter, pull, input_len, size>>

CobsEncodeVector ==
    /\ op = "idle"
    /\ res' = cobs_encode_vector(in_buf)
    /\ op' = "cobs_encode_vector"
    /\ UNCHANGED <<in_buf, out_len, fill, iter, pull, input_len, size>>

CobsDecodeArray ==
    /\ op = "idle"
    /\ \E len \in OutLens(in_buf, cobs_decode_max_output_size(Len(in_buf))),
          f \in FillBytes :
        /\ out_len' = len
        /\ fill' = f
        /\ res' = cobs_decode_array(NewBuf(len, f), in_buf)
    /\ op' = "cobs_decode_array"
    /\ UNCHANGED <<in_buf, iter, pull, input_len, size>>

CobsDecodeVector ==
    /\ op = "idle"
    /\ res' = cobs_decode_vector(in_buf)
    /\ op' = "cobs_decode_vector"
    /\ UNCHANGED <<in_buf, out_len, fill, iter, pull, input_len, size>>

CobsrEncodeArray ==
    /\ op = "idle"
    /\ \E len \in OutLens(in_buf, cobsr_encode_max_output_size(Len(in_buf))),
          f \in FillBytes :
        /\ out_len' = len
        /\ fill' = f
        /\ res' = cobsr_encode_array(NewBuf(len, f), in_buf)
    /\ op' = "cobsr_encode_array"
    /\ UNCHANGED <<in_buf, iter, pull, input_len, size>>

CobsrEncodeVector ==
    /\ op = "idle"
    /\ res' = cobsr_encode_vector(in_buf)
    /\ op' = "cobsr_encode_vector"
    /\ UNCHANGED <<in_buf, out_len, fill, iter, pull, input_len, size>>

CobsrDecodeArray ==
    /\ op = "idle"
    /\ \E len \in OutLens(in_buf, cobsr_decode_max_output_size(Len(in_buf))),
          f \in FillBytes :
        /\ out_len' = len
        /\ fill' = f
        /\ res' = cobsr_decode_array(NewBuf(len, f), in_buf)
    /\ op' = "cobsr_decode_array"
    /\ UNCHANGED <<in_buf, iter, pull, input_len, size>>

CobsrDecodeVector ==
    /\ op = "idle"
    /\ res' = cobsr_decode_vector(in_buf)
    /\ op' = "cobsr_decode_vector"
    /\ UNCHANGED <<in_buf, out_len, fill, iter, pull, input_len, size>>

CobsEncodeIter ==
    /\ op = "idle"
    /\ res' = cobs_encode_iter(in_buf)
    /\ op' = "cobs_encode_iter"
    /\ UNCHANGED <<in_buf, out_len, fill, iter, pull, input_len, size>>

CobsrEncodeIter ==
    /\ op = "idle"
    /\ res' = cobsr_encode_iter(in_buf)
    /\ op' = "cobsr_encode_iter"
    /\ UNCHANGED <<in_buf, out_len, fill, iter, pull, input_len, size>>

CobsDecodeIter ==
    /\ op = "idle"
    /\ res' = cobs_decode_iter(in_buf)
    /\ op' = "cobs_decode_iter"
    /\ UNCHANGED <<in_buf, out_len, fill, iter, pull, input_len, size>>

CobsrDecodeIter ==
    /\ op = "idle"
    /\ res' = cobsr_decode_iter(in_buf)
    /\ op' = "cobsr_decode_iter"
    /\ UNCHANGED <<in_buf, out_len, fill, iter, pull, input_len, size>>

CobsDecodeResultIter ==
    /\ op = "idle"
    /\ res' = cobs_decode_result_iter(in_buf)
    /\ op' = "cobs_decode_result_iter"
    /\ UNCHANGED <<in_buf, out_len, fill, iter, pull, input_len, size>>

Next ==
    \/ CobsEncodeArray
    \/ CobsEncodeVector
    \/ CobsDecodeArray
    \/ CobsDecodeVector
    \/ CobsrEncodeArray
    \/ CobsrEncodeVector
    \/ CobsrDecodeArray
    \/ CobsrDecodeVector
    \/ CobsEncodeIter
    \/ CobsrEncodeIter
    \/ CobsDecodeIter
    \/ CobsrDecodeIter
    \/ CobsDecodeResultIter

Spec == Init /\ [][Next]_vars

(* ---------------------------------------------------------------------- *)
(* A lazy iterator pulled call by call                                     *)
(* ---------------------------------------------------------------------- *)

\* How many more calls of next() the consumer makes after the iterator has
\* returned end-of-sequence.
MaxExtraPulls == 3

\* The long inputs of a pulled iterator: a long run and what follows it.
PullInputs ==
    ShortInputs \cup
    {Run(b, n) \o s :
        b \in RunBytes,
        n \in (254 - RunSlack)..(254 + RunSlack),
        s \in Suffixes}

EncodeIterators == {"cobs::EncodeIterator", "cobsr::EncodeIterator"}
BestEffortDecodeIterators == {"cobs::DecodeIterator", "cobsr::DecodeIterator"}
Iterators ==
    EncodeIterators \cup BestEffortDecodeIterators
        \cup {"cobs::DecodeResultIterator"}

\* The iterator a constructor function returns for in_buf.into_iter().
NewIterator(kind, input) ==
    CASE kind = "cobs::EncodeIterator" -> cobs_EncodeIterator_new(input)
      [] kind = "cobsr::EncodeIterator" -> cobsr_EncodeIterator_new(input)
      [] kind = "cobs::DecodeIterator" -> cobs_DecodeIterator_new(input)
      [] kind = "cobsr::DecodeIterator" -> cobsr_DecodeIterator_new(input)
      [] kind = "cobs::DecodeResultIterator" ->
            cobs_DecodeResultIterator_new(input)

PullInit ==
    /\ in_buf \in PullInputs
    /\ op \in Iterators
    /\ out_len = 0
    /\ fill = 0
    /\ res = Ok(<<>>)
    /\ iter = NewIterator(op, in_buf)
    /\ pull = NoPulls
    /\ input_len = 0
    /\ size = 0

\* The consumer calls next() until it has seen end-of-sequence, and up to
\* MaxExtraPulls times after that.
MayPull == ~pull.ended \/ pull.extra < MaxExtraPulls

\* The record of the calls so far after one more call that returned r
\* (with error e, "Ok" if none).
Pulled(r, e) ==
    [n |-> pull.n + 1, item |-> r.item, err |-> e, panic |-> r.panic,
     read |-> r.it.pos - iter.pos,
     ended |-> pull.ended \/ r.panic \/ e # "Ok" \/ r.item = None,
     extra |-> IF pull.ended THEN pull.extra + 1 ELSE 0]

CobsEncodeIteratorNext ==
    /\ op = "cobs::EncodeIterator"
    /\ MayPull
    /\ LET r == cobs_EncodeIterator_next(iter)
       IN /\ iter' = r.it
          /\ pull' = Pulled(r, "Ok")
    /\ UNCHANGED <<in_buf, op, out_len, fill, res, input_len, size>>

CobsrEncodeIteratorNext ==
    /\ op = "cobsr::EncodeIterator"
    /\ MayPull
    /\ LET r == cobsr_EncodeIterator_next(iter)
       IN /\ iter' = r.it
          /\ pull' = Pulled(r, "Ok")
    /\ UNCHANGED <<in_buf, op, out_len, fill, res, input_len, size>>

CobsDecodeIteratorNext ==
    /\ op = "cobs::DecodeIterator"
    /\ MayPull
    /\ LET r == cobs_DecodeIterator_next(iter)
       IN /\ iter' = r.it
          /\ pull' = Pulled(r, "Ok")
    /\ UNCHANGED <<in_buf, op, out_len, fill, res, input_len, size>>

CobsrDecodeIteratorNext ==
    /\ op = "cobsr::DecodeIterator"
    /\ MayPull
    /\ LET r == cobsr_DecodeIterator_next(iter)
       IN /\ iter' = r.it
          /\ pull' = Pulled(r, "Ok")
    /\ UNCHANGED <<in_buf, op, out_len, fill, res, input_len, size>>

CobsDecodeResultIteratorNext ==
    /\ op = "cobs::DecodeResultIterator"
    /\ MayPull
    /\ LET r == cobs_DecodeResultIterator_next(iter)
       IN /\ iter' = r.it
          /\ pull' = Pulled(r, r.err)
    /\ UNCHANGED <<in_buf, op, out_len, fill, res, input_len, size>>

PullNext ==
    \/ CobsEncodeIteratorNext
    \/ CobsrEncodeIteratorNext
    \/ CobsDecodeIteratorNext
    \/ CobsrDecodeIteratorNext
    \/ CobsDecodeResultIteratorNext

PullSpec == PullInit /\ [][PullNext]_vars

(* ---------------------------------------------------------------------- *)
(* One call of an encode size calculator, for any usize argument           *)
(* ---------------------------------------------------------------------- *)

SizeInit ==
    /\ in_buf = <<>>
    /\ op = "idle"
    /\ out_len = 0
    /\ fill = 0
    /\ res = Ok(<<>>)
    /\ iter = NoIterator
    /\ pull = NoPulls
    /\ input_len \in 0..usize_max_value
    /\ size = 0

CobsEncodeMinOutputSize ==
    /\ op = "idle"
    /\ size' = cobs_encode_min_output_size(input_len)
    /\ op' = "cobs::encode_min_output_size"
    /\ UNCHANGED <<in_buf, out_len, fill, res, iter, pull, input_len>>

CobsEncodeMaxOutputSize ==
    /\ op = "idle"
    /\ size' = cobs_encode_max_output_size(input_len)
    /\ op' = "cobs::encode_max_output_size"
    /\ UNCHANGED <<in_buf, out_len, fill, res, iter, pull, input_len>>

CobsrEncodeMinOutputSize ==
    /\ op = "idle"
    /\ size' = cobsr_encode_min_output_size(input_len)
    /\ op' = "cobsr::encode_min_output_size"
    /\ UNCHANGED <<in_buf, out_len, fill, res, iter, pull, input_len>>

CobsrEncodeMaxOutputSize ==
    /\ op = "idle"
    /\ size' = cobsr_encode_max_output_size(input_len)
    /\ op' = "cobsr::encode_max_output_size"
    /\ UNCHANGED <<in_buf, out_len, fill, res, iter, pull, input_len>>

SizeNext ==
    \/ CobsEncodeMinOutputSize
    \/ CobsEncodeMaxOutputSize
    \/ CobsrEncodeMinOutputSize
    \/ CobsrEncodeMaxOutputSize

SizeSpec == SizeInit /\ [][SizeNext]_vars

(* ---------------------------------------------------------------------- *)
(* Properties                                                              *)
(* ---------------------------------------------------------------------- *)

NoZero(bytes) == \A i \in 1..Len(bytes) : bytes[i] # 0

\* The call had a buffer at least as large as the size calculator asks for
\* (a vector call has no buffer to run out of).
LargeEnough(max) == out_len >= max

\* C1: standard COBS round trip: cobs::encode_array (given a buffer of
\* encode_max_output_size) and cobs::encode_vector return Ok for every input,
\* and cobs::decode_vector and cobs::decode_array applied to any Ok output of
\* either encoder return Ok with exactly the input.
CobsRoundTrip ==
    /\ op = "cobs_encode_vector" => res.status = "Ok"
    /\ (op = "cobs_encode_array"
        /\ LargeEnough(cobs_encode_max_output_size(Len(in_buf))))
       => res.status = "Ok"
    /\ (op \in {"cobs_encode_array", "cobs_encode_vector"} /\ res.status = "Ok")
       => /\ cobs_decode_vector(res.out) = Ok(in_buf)
          /\ cobs_decode_array(
                 NewBuf(cobs_decode_max_output_size(Len(res.out)), fill),
                 res.out) = Ok(in_buf)

\* A run one past the 254-byte cap has been encoded and decodes to itself.
CobsRoundTripWitness ==
    /\ op = "cobs_encode_array"
    /\ res.status = "Ok"
    /\ Len(in_buf) = 255
    /\ NoZero(in_buf)
    /\ Len(res.out) = 257
    /\ cobs_decode_vector(res.out) = Ok(in_buf)

\* C2: COBS/R round trip: cobsr::encode_array (given a buffer of
\* encode_max_output_size) and cobsr::encode_vector return Ok for every input,
\* and cobsr::decode_vector and cobsr::decode_array applied to any Ok output
\* of either encoder return Ok with exactly the input.
CobsrRoundTrip ==
    /\ op = "cobsr_encode_vector" => res.status = "Ok"
    /\ (op = "cobsr_encode_array"
        /\ LargeEnough(cobsr_encode_max_output_size(Len(in_buf))))
       => res.status = "Ok"
    /\ (op \in {"cobsr_encode_array", "cobsr_encode_vector"} /\ res.status = "Ok")
       => /\ cobsr_decode_vector(res.out) = Ok(in_buf)
          /\ cobsr_decode_array(
                 NewBuf(cobsr_decode_max_output_size(Len(res.out)), fill),
                 res.out) = Ok(in_buf)

\* A final run of exactly 254 bytes ending in 0xFF has been encoded with its
\* length code elided, and decodes to itself.
CobsrRoundTripWitness ==
    /\ op = "cobsr_encode_vector"
    /\ res.status = "Ok"
    /\ Len(in_buf) = 254
    /\ NoZero(in_buf)
    /\ in_buf[254] = 255
    /\ Len(res.out) = 254
    /\ cobsr_decode_vector(res.out) = Ok(in_buf)

EncodeOps ==
    {"cobs_encode_array", "cobs_encode_vector", "cobs_encode_iter",
     "cobsr_encode_array", "cobsr_encode_vector", "cobsr_encode_iter"}

\* C3: zero-freedom: the output of every encoder (COBS and COBS/R; array,
\* vector and iterator) contains no 0x00 byte, and the vector and iterator
\* encoders always produce an output.
ZeroFreedom ==
    /\ (op \in EncodeOps /\ res.status = "Ok") => NoZero(res.out)
    /\ op \in {"cobs_encode_vector", "cobs_encode_iter",
               "cobsr_encode_vector", "cobsr_encode_iter"}
       => res.status = "Ok"

\* The lazy COBS/R encoder has encoded an input that starts with a zero and
\* ends in a byte it put in place of the final length code.
ZeroFreedomWitness ==
    /\ op = "cobsr_encode_iter"
    /\ res.status = "Ok"
    /\ Len(in_buf) >= 2
    /\ in_buf[1] = 0
    /\ Len(res.out) = Len(in_buf)
    /\ res.out[Len(res.out)] = in_buf[Len(in_buf)]
    /\ NoZero(res.out)

\* C4: COBS/R decoding is a superset of COBS decoding: whenever
\* cobs::decode_vector or cobs::decode_array succeeds on an input, so do
\* cobsr::decode_vector and cobsr::decode_array, with the same output.
CobsrDecodesCobs ==
    (op \in {"cobs_decode_vector", "cobs_decode_array"} /\ res.status = "Ok")
    => /\ cobsr_decode_vector(in_buf) = res
       /\ cobsr_decode_array(
              NewBuf(cobsr_decode_max_output_size(Len(in_buf)), fill),
              in_buf) = res

\* COBS has decoded a non-canonical frame: a full 0xFF block followed by a
\* redundant 0x01.
CobsrDecodesCobsWitness ==
    /\ op = "cobs_decode_vector"
    /\ res.status = "Ok"
    /\ Len(in_buf) = 256
    /\ in_buf[1] = 255
    /\ in_buf[256] = 1
    /\ Len(res.out) = 254

\* The index of the last zero byte of x, 0 if it has none.
LastZero(x) ==
    IF NoZero(x) THEN 0
    ELSE CHOOSE i \in 1..Len(x) :
             x[i] = 0 /\ \A j \in (i + 1)..Len(x) : x[j] # 0

\* The length code standard COBS gives the final run of x: one more than
\* the number of data bytes in it (runs are cut every 254 bytes).
FinalCode(x) ==
    LET tail == Len(x) - LastZero(x)
    IN IF tail = 0 THEN 1 ELSE ((tail - 1) % 254) + 2

\* The last byte of x can stand in for the final length code.
Elidable(x) == x # <<>> /\ x[Len(x)] >= FinalCode(x)

CobsrEncodeOps == {"cobsr_encode_array", "cobsr_encode_vector"}

\* C5: COBS/R savings: when the last byte of the input is >= the length code
\* of its final run, the COBS/R encoding is exactly one byte shorter than
\* the COBS encoding.
CobsrSavings ==
    (op \in CobsrEncodeOps /\ res.status = "Ok" /\ Elidable(in_buf))
    => Len(res.out) = Len(cobs_encode_vector(in_buf).out) - 1

\* One byte has been saved on an input whose last byte equals the final
\* length code: a byte, a zero, and 0x02 in place of the code of the last run.
CobsrSavingsWitness ==
    /\ op = "cobsr_encode_array"
    /\ res.status = "Ok"
    /\ Len(in_buf) = 3
    /\ in_buf[1] # 0
    /\ in_buf[2] = 0
    /\ in_buf[3] = FinalCode(in_buf)
    /\ Len(res.out) = 3
    /\ Len(cobs_encode_vector(in_buf).out) = 4

\* C6: the COBS/R encoding is never longer than the COBS encoding, and is
\* identical to it when the last byte of the input is smaller than the final
\* run's length code (this includes the empty input and inputs ending in 0).
CobsrNeverLonger ==
    (op \in CobsrEncodeOps /\ res.status = "Ok")
    => /\ Len(res.out) <= Len(cobs_encode_vector(in_buf).out)
       /\ ~Elidable(in_buf) => res.out = cobs_encode_vector(in_buf).out

\* A final run of exactly 254 bytes ending in 0xFE has been encoded as
\* standard COBS does it.
CobsrNeverLongerWitness ==
    /\ op = "cobsr_encode_vector"
    /\ res.status = "Ok"
    /\ Len(in_buf) = 254
    /\ NoZero(in_buf)
    /\ in_buf[254] = 254
    /\ ~Elidable(in_buf)
    /\ Len(res.out) = 255

\* C7: encoded size bounds: for both families the length of every encoder
\* output lies between the family's encode_min_output_size and
\* encode_max_output_size of the input length.
EncodedSizeBounds ==
    /\ (op \in {"cobs_encode_array", "cobs_encode_vector"} /\ res.status = "Ok")
       => /\ cobs_encode_min_output_size(Len(in_buf)) <= Len(res.out)
          /\ Len(res.out) <= cobs_encode_max_output_size(Len(in_buf))
    /\ (op \in CobsrEncodeOps /\ res.status = "Ok")
       => /\ cobsr_encode_min_output_size(Len(in_buf)) <= Len(res.out)
          /\ Len(res.out) <= cobsr_encode_max_output_size(Len(in_buf))

\* An encoding of the largest size has been produced: 255 non-zero bytes
\* take two length codes.
EncodedSizeBoundsWitness ==
    /\ op = "cobs_encode_vector"
    /\ res.status = "Ok"
    /\ Len(in_buf) = 255
    /\ Len(res.out) = cobs_encode_max_output_size(255)
    /\ Len(res.out) = 257

\* Walking a zero-free frame from length code to length code: c is the
\* index of the code reached, last the index of the code before it.
FrameStep(s, e) ==
    IF s.c >= Len(e) THEN Return(s, Break)
    ELSE [s EXCEPT !.last = s.c, !.c = s.c + e[s.c + 1]]

FrameWalk(e) ==
    ForEach(LAMBDA t, k : FrameStep(t, e),
            [status |-> Running, c |-> 0, last |-> 0], 1, Len(e) + 1)

\* The last length code of e claims more bytes than remain.
OverClaims(e) == FrameWalk(e).c > Len(e)

\* C8: standard COBS truncation error: on an input with no zero byte,
\* cobs::decode_vector and cobs::decode_array (with a large enough buffer)
\* return TruncatedEncodedData exactly when the last length code reached
\* claims more bytes than remain, and Ok otherwise.
CobsTruncation ==
    (/\ NoZero(in_buf)
     /\ \/ op = "cobs_decode_vector"
        \/ /\ op = "cobs_decode_array"
           /\ LargeEnough(cobs_decode_max_output_size(Len(in_buf))))
    => res.status = IF OverClaims(in_buf) THEN TruncatedEncodedData ELSE "Ok"

\* A frame whose first code is 0xFF but which holds only 253 more bytes has
\* been refused as truncated.
CobsTruncationWitness ==
    /\ op = "cobs_decode_vector"
    /\ res.status = TruncatedEncodedData
    /\ Len(in_buf) = 254
    /\ NoZero(in_buf)
    /\ in_buf[1] = 255

\* e with its last length code replaced by the number of bytes that do
\* remain, itself included.
ExactFit(e) ==
    LET last == FrameWalk(e).last
    IN [e EXCEPT ![last + 1] = Len(e) - last]

\* C9: the COBS/R decoders never return TruncatedEncodedData: on an input with
\* no zero byte cobsr::decode_vector returns Ok, and when the final length code
\* claims more bytes than remain the output is what the bytes before and
\* after that code decode to, followed by the value of the code byte.
CobsrNoTruncation ==
    /\ op \in {"cobsr_decode_vector", "cobsr_decode_array"}
       => res.status # TruncatedEncodedData
    /\ (op = "cobsr_decode_vector" /\ NoZero(in_buf))
       => /\ res.status = "Ok"
          /\ OverClaims(in_buf)
             => res.out = Append(cobs_decode_vector(ExactFit(in_buf)).out,
                                 in_buf[FrameWalk(in_buf).last + 1])

\* A frame whose final code 0xFF is followed by only 253 bytes has been
\* decoded to those bytes and 0xFF.
CobsrNoTruncationWitness ==
    /\ op = "cobsr_decode_vector"
    /\ res.status = "Ok"
    /\ Len(in_buf) = 254
    /\ NoZero(in_buf)
    /\ in_buf[1] = 255
    /\ Len(res.out) = 254
    /\ res.out[254] = 255

\* C10: zero detection: for both families decode_vector, and decode_array
\* given a buffer of decode_max_output_size, return ZeroInEncodedData if and
\* only if the input contains a 0x00 byte.
ZeroDetection ==
    /\ (\/ op = "cobs_decode_vector"
        \/ /\ op = "cobs_decode_array"
           /\ LargeEnough(cobs_decode_max_output_size(Len(in_buf))))
       => (res.status = ZeroInEncodedData <=> ~NoZero(in_buf))
    /\ (\/ op = "cobsr_decode_vector"
        \/ /\ op = "cobsr_decode_array"
           /\ LargeEnough(cobsr_decode_max_output_size(Len(in_buf))))
       => (res.status = ZeroInEncodedData <=> ~NoZero(in_buf))

\* A zero inside a run, behind more than 254 good bytes and followed by
\* another byte, has been reported by the bounded-buffer COBS/R decoder.
ZeroDetectionWitness ==
    /\ op = "cobsr_decode_array"
    /\ out_len = cobsr_decode_max_output_size(Len(in_buf))
    /\ res.status = ZeroInEncodedData
    /\ Len(in_buf) > 255
    /\ NoZero(SubSeq(in_buf, 1, Len(in_buf) - 2))
    /\ in_buf[Len(in_buf) - 1] = 0
    /\ in_buf[Len(in_buf)] # 0

\* The call had a buffer of at least n bytes.
BufferHolds(n) == out_len >= n

\* C11: cobs::encode_array returns OutputBufferTooSmall if and only if
\* out_buf.len() is smaller than the length of the COBS encoding of in_buf,
\* and returns Ok with the full encoding otherwise (a buffer of exactly the
\* encoded length included).
CobsEncodeArrayTooSmall ==
    op = "cobs_encode_array"
    => LET enc == cobs_encode_vector(in_buf)
       IN /\ res.status = OutputBufferTooSmall <=> ~BufferHolds(Len(enc.out))
          /\ BufferHolds(Len(enc.out)) => res = enc

\* A 254-byte run followed by a zero and one more byte has been encoded
\* into a buffer of exactly the encoded length, one less than the calculator
\* gives.
CobsEncodeArrayTooSmallWitness ==
    /\ op = "cobs_encode_array"
    /\ res.status = "Ok"
    /\ Len(in_buf) > 254
    /\ out_len = Len(res.out)
    /\ out_len < cobs_encode_max_output_size(Len(in_buf))

\* C12: cobsr::encode_array returns Ok with the COBS/R encoding whenever
\* out_buf.len() is at least the length of that encoding, the case of the
\* elided final length code included.
CobsrEncodeArrayFits ==
    op = "cobsr_encode_array"
    => LET enc == cobsr_encode_vector(in_buf)
       IN BufferHolds(Len(enc.out)) => res = enc

\* C13: for both families, encode_array called with a buffer of at least
\* encode_max_output_size(in_buf.len()) bytes never returns
\* OutputBufferTooSmall.
EncodeArrayMaxSuffices ==
    /\ (op = "cobs_encode_array"
        /\ BufferHolds(cobs_encode_max_output_size(Len(in_buf))))
       => res.status # OutputBufferTooSmall
    /\ (op = "cobsr_encode_array"
        /\ BufferHolds(cobsr_encode_max_output_size(Len(in_buf))))
       => res.status # OutputBufferTooSmall

\* The COBS/R encoder, given exactly encode_max_output_size bytes, has
\* written the last 0xFF of a 254-byte run into the buffer and then put it in
\* place of the length code.
EncodeArrayMaxSufficesWitness ==
    /\ op = "cobsr_encode_array"
    /\ out_len = cobsr_encode_max_output_size(Len(in_buf))
    /\ res.status = "Ok"
    /\ Len(in_buf) = 254
    /\ NoZero(in_buf)
    /\ in_buf[254] = 255
    /\ Len(res.out) = out_len - 1

\* C14: for both families and every input on which decode_vector succeeds
\* with output d, decode_array returns Ok(d) when out_buf.len() >= len(d) and
\* OutputBufferTooSmall when out_buf.len() < len(d).
DecodeArrayTooSmall ==
    /\ op = "cobs_decode_array"
       => LET d == cobs_decode_vector(in_buf)
          IN d.status = "Ok"
             => res = IF BufferHolds(Len(d.out))
                      THEN d ELSE Err(OutputBufferTooSmall)
    /\ op = "cobsr_decode_array"
       => LET d == cobsr_decode_vector(in_buf)
          IN d.status = "Ok"
             => res = IF BufferHolds(Len(d.out))
                      THEN d ELSE Err(OutputBufferTooSmall)

\* A well-formed COBS frame of a full block and more has been refused for a
\* buffer one byte short of what it decodes to.
DecodeArrayTooSmallWitness ==
    /\ op = "cobs_decode_array"
    /\ res.status = OutputBufferTooSmall
    /\ Len(in_buf) > 255
    /\ in_buf[1] = 255
    /\ cobs_decode_vector(in_buf).status = "Ok"
    /\ out_len = Len(cobs_decode_vector(in_buf).out) - 1

ArrayOps ==
    {"cobs_encode_array", "cobs_decode_array",
     "cobsr_encode_array", "cobsr_decode_array"}

\* C15: memory safety of the bounded-buffer operations: for every input and
\* every out_buf length, 0 included, encode_array and decode_array of both
\* families never index outside in_buf or out_buf (no panic), and the slice
\* returned ends within out_buf.
MemorySafety ==
    op \in ArrayOps
    => /\ res.status # Panic
       /\ res.status = "Ok" => Len(res.out) <= out_len

\* An encoder has been called with an empty buffer and an empty input, and
\* has refused to reserve the first length code.
MemorySafetyWitness ==
    /\ op = "cobs_encode_array"
    /\ out_len = 0
    /\ in_buf = <<>>
    /\ res.status = OutputBufferTooSmall

\* C16: the growable-buffer encoders agree with the bounded-buffer ones: for
\* both families encode_vector returns Ok on every input, and its content is
\* the slice encode_array returns for a buffer of encode_max_output_size.
VectorMatchesArray ==
    /\ op = "cobs_encode_vector"
       => /\ res.status = "Ok"
          /\ res = cobs_encode_array(
                       NewBuf(cobs_encode_max_output_size(Len(in_buf)), fill),
                       in_buf)
    /\ op = "cobsr_encode_vector"
       => /\ res.status = "Ok"
          /\ res = cobsr_encode_array(
                       NewBuf(cobsr_encode_max_output_size(Len(in_buf)), fill),
                       in_buf)

\* The vector encoder has gone back to a placeholder 255 bytes behind the
\* end of the vector, and to a second one after it.
VectorMatchesArrayWitness ==
    /\ op = "cobs_encode_vector"
    /\ res.status = "Ok"
    /\ Len(in_buf) = 256
    /\ NoZero(in_buf)
    /\ Len(res.out) = 258
    /\ res.out[1] = 255
    /\ res.out[256] = 3

\* C17: the lazy COBS encoder agrees with the eager one: for every input the
\* items cobs::encode_iter (and encode_ref_iter) yields up to the first
\* end-of-sequence are the bytes of cobs::encode_vector.
CobsLazyEncoderMatches ==
    op = "cobs_encode_iter" => res = cobs_encode_vector(in_buf)

\* The lazy encoder has ended right after a full block of 254 non-zero
\* bytes, with no 0x01 behind it.
CobsLazyEncoderMatchesWitness ==
    /\ op = "cobs_encode_iter"
    /\ res.status = "Ok"
    /\ Len(in_buf) = 254
    /\ NoZero(in_buf)
    /\ Len(res.out) = 255
    /\ res.out[1] = 255

\* C18: the lazy COBS/R encoder agrees with the eager one: for every input
\* the items cobsr::encode_iter (and encode_ref_iter) yields up to the first
\* end-of-sequence are the bytes of cobsr::encode_vector.
CobsrLazyEncoderMatches ==
    op = "cobsr_encode_iter" => res = cobsr_encode_vector(in_buf)

\* The lazy encoder has looked one byte ahead after a full block, found the
\* last byte of the input there, and put it in place of the final code.
CobsrLazyEncoderMatchesWitness ==
    /\ op = "cobsr_encode_iter"
    /\ res.status = "Ok"
    /\ Len(in_buf) = 255
    /\ NoZero(in_buf)
    /\ in_buf[255] = 255
    /\ Len(res.out) = 256
    /\ res.out[1] = 255
    /\ res.out[256] = 255

\* C19: the best-effort lazy decoders agree with the eager decoders on
\* well-formed input: for both families, on every input that decode_vector
\* decodes to d, the items decode_iter (and decode_ref_iter) yields up to the
\* first end-of-sequence are exactly d.
LazyDecoderMatches ==
    /\ (op = "cobs_decode_iter" /\ cobs_decode_vector(in_buf).status = "Ok")
       => res = cobs_decode_vector(in_buf)
    /\ (op = "cobsr_decode_iter" /\ cobsr_decode_vector(in_buf).status = "Ok")
       => res = cobsr_decode_vector(in_buf)

\* The lazy COBS/R decoder has yielded the value of an over-claiming final
\* code 0xFF as its last byte, after the 253 bytes that follow the code.
LazyDecoderMatchesWitness ==
    /\ op = "cobsr_decode_iter"
    /\ res.status = "Ok"
    /\ Len(in_buf) = 254
    /\ NoZero(in_buf)
    /\ in_buf[1] = 255
    /\ Len(res.out) = 254
    /\ res.out[254] = 255

\* C20: the checked lazy COBS decoder agrees with the eager decoder on every
\* input: collecting cobs::decode_result_iter (or decode_result_ref_iter)
\* into a Result gives the value of cobs::decode_vector, the same bytes or
\* the same error.
CheckedLazyDecoderMatches ==
    op = "cobs_decode_result_iter" => res = cobs_decode_vector(in_buf)

\* The checked lazy decoder has reported a frame that ends inside the block
\* of its second length code.
CheckedLazyDecoderMatchesWitness ==
    /\ op = "cobs_decode_result_iter"
    /\ res.status = TruncatedEncodedData
    /\ Len(in_buf) > 255
    /\ in_buf[1] = 255
    /\ NoZero(in_buf)

(* ---------------------------------------------------------------------- *)
(* Properties of the iterators pulled call by call (PullSpec)              *)
(* ---------------------------------------------------------------------- *)

\* C21: once the checked lazy COBS decoder has yielded an error item or
\* end-of-sequence, every later call of next() yields end-of-sequence and
\* reads nothing from the input; so an error item is the last item and
\* there is at most one.
CheckedDecoderEndIsFinal ==
    [][(op = "cobs::DecodeResultIterator" /\ pull.ended)
        => /\ pull'.item = None
           /\ pull'.err = "Ok"
           /\ ~pull'.panic
           /\ iter'.pos = iter.pos]_vars

\* The decoder yielded the error for a zero byte with input left over, and
\* every call after it was made.
CheckedDecoderEndIsFinalWitness ==
    /\ op = "cobs::DecodeResultIterator"
    /\ pull.extra = MaxExtraPulls
    /\ iter.eof
    /\ iter.pos < Len(in_buf)
    /\ in_buf[iter.pos] = 0
    /\ pull.item = None
    /\ pull.err = "Ok"

\* The index of the first zero byte of bytes, 0 if there is none.
FirstZero(bytes) ==
    IF NoZero(bytes) THEN 0
    ELSE CHOOSE i \in 1..Len(bytes) :
            bytes[i] = 0 /\ \A j \in 1..(i - 1) : bytes[j] # 0

\* The bytes of in_buf before its first zero byte.
BeforeFirstZero == SubSeq(in_buf, 1, FirstZero(in_buf) - 1)

\* This call of next() reads the first zero byte of in_buf.
ConsumesFirstZero ==
    /\ FirstZero(in_buf) > 0
    /\ iter.pos < FirstZero(in_buf)
    /\ iter'.pos >= FirstZero(in_buf)

\* The first zero byte of in_buf sits inside a run: the last length code
\* before it claims bytes from the zero on.
ZeroInsideRun == OverClaims(BeforeFirstZero)

\* The length code of the run the first zero byte sits in.
CodeOfCutRun == BeforeFirstZero[FrameWalk(BeforeFirstZero).last + 1]

\* C22 as stated: the call of next() of a best-effort lazy decoder that
\* reads the first zero byte of the input yields end-of-sequence.
BestEffortZeroYieldsEnd ==
    [][(op \in BestEffortDecodeIterators /\ ConsumesFirstZero)
        => pull'.item = None]_vars

\* C22: a best-effort lazy decoder treats the first zero byte of the input
\* as the end of the data.  The call of next() that reads it reads nothing
\* after it and yields end-of-sequence, except that the COBS/R decoder, for
\* a zero inside a run, yields the length code of that run as the last data
\* byte (as it does when the input ends inside a run) and yields
\* end-of-sequence on the next call without reading any input.
BestEffortZeroEndsData ==
    [][/\ (op \in BestEffortDecodeIterators /\ ConsumesFirstZero)
            => /\ iter'.pos = FirstZero(in_buf)
               /\ ~pull'.panic
               /\ IF op = "cobsr::DecodeIterator" /\ ZeroInsideRun
                  THEN pull'.item = CodeOfCutRun /\ iter'.eof
                  ELSE pull'.item = None
       /\ (op = "cobsr::DecodeIterator" /\ iter.eof)
            => pull'.item = None /\ iter'.pos = iter.pos]_vars

\* The COBS/R decoder has read a zero inside a long run and yielded the
\* length code 0xFF for it; on the next call it yielded end-of-sequence.
BestEffortZeroEndsDataWitness ==
    /\ op = "cobsr::DecodeIterator"
    /\ FirstZero(in_buf) > 250
    /\ ZeroInsideRun
    /\ iter.pos = FirstZero(in_buf)
    /\ pull.ended
    /\ pull.extra = 0
    /\ pull.item = None

(* ---------------------------------------------------------------------- *)
(* Properties of the size calculators (SizeSpec)                           *)
(* ---------------------------------------------------------------------- *)

Min(a, b) == IF a <= b THEN a ELSE b

\* n / d rounded up.
CeilDiv(n, d) == (n \div d) + (IF n % d = 0 THEN 0 ELSE 1)

\* C23: over the whole range of usize, encode_max_output_size(n) of both
\* families is min(usize::MAX, n + ceil(n / 254)) for n > 0 and 1 for n = 0,
\* and cobs::encode_min_output_size(n) is min(usize::MAX, n + 1): no addition
\* made on the way wraps around, which would show in the result.
EncodeSizesSaturate ==
    /\ op \in {"cobs::encode_max_output_size", "cobsr::encode_max_output_size"}
        => size = IF input_len = 0 THEN 1
                  ELSE Min(usize_max_value,
                           input_len + CeilDiv(input_len, 254))
    /\ op = "cobs::encode_min_output_size"
        => size = Min(usize_max_value, input_len + 1)

\* encode_max_output_size saturated for an argument below the guard of
\* usize::max_value() - 253, where only the test of the final sum stops the
\* overflow.
EncodeSizesSaturateWitness ==
    /\ op = "cobs::encode_max_output_size"
    /\ input_len < usize_max_value - 253
    /\ input_len + CeilDiv(input_len, 254) > usize_max_value
    /\ size = usize_max_value

(* ---------------------------------------------------------------------- *)
(* Further properties of the single calls (Spec)                           *)
(* ---------------------------------------------------------------------- *)

CobsDecodeOps ==
    {"cobs_decode_array", "cobs_decode_vector", "cobs_decode_result_iter"}
CobsrDecodeOps == {"cobsr_decode_array", "cobsr_decode_vector"}

\* C24: whenever a decoder returns Ok, the length of the decoded data lies
\* between the family's decode_min_output_size and decode_max_output_size
\* of the length of the encoded input.
DecodedSizeBounds ==
    /\ (op \in CobsDecodeOps /\ res.status = "Ok")
        => /\ cobs_decode_min_output_size(Len(in_buf)) <= Len(res.out)
           /\ Len(res.out) <= cobs_decode_max_output_size(Len(in_buf))
    /\ (op \in CobsrDecodeOps /\ res.status = "Ok")
        => /\ cobsr_decode_min_output_size(Len(in_buf)) <= Len(res.out)
           /\ Len(res.out) <= cobsr_decode_max_output_size(Len(in_buf))

\* A frame with a full block that is not the last one decoded to exactly
\* decode_min_output_size bytes, one less than decode_max_output_size.
DecodedSizeBoundsWitness ==
    /\ op = "cobs_decode_vector"
    /\ res.status = "Ok"
    /\ Len(in_buf) > 255
    /\ Len(res.out) = cobs_decode_min_output_size(Len(in_buf))
    /\ Len(res.out) < cobs_decode_max_output_size(Len(in_buf))

\* The blocks of the frame e one after another: the data bytes of each
\* block, and a zero after it if its length code is below 0xFF and it is
\* not the last block.  c is the index of the next length code.
BlockStep(s, e) ==
    IF s.c >= Len(e) THEN Return(s, Break)
    ELSE LET code == e[s.c + 1]
             last == s.c + code >= Len(e)
             data == SubSeq(e, s.c + 2, Min(s.c + code, Len(e)))
             zero == IF code < 255 /\ ~last THEN <<0>> ELSE <<>>
         IN [s EXCEPT !.c = s.c + code, !.out = @ \o data \o zero]

Blocks(e) ==
    ForEach(LAMBDA t, k : BlockStep(t, e),
            [status |-> Running, c |-> 0, out |-> <<>>], 1, Len(e) + 1).out

\* The last block of e has length code 0xFF and all its 254 bytes.
LastBlockFull(e) ==
    /\ Len(e) > 0
    /\ FrameWalk(e).c = Len(e)
    /\ e[FrameWalk(e).last + 1] = 255

\* C25: a decoder puts exactly one zero after a block whose length code is
\* below 0xFF and which is not the last block, and none anywhere else (for
\* COBS/R: in frames whose last code is a real length code).  So a 0x01
\* appended to a frame whose last block has code 0xFF and is complete does
\* not change the decoded data, and the empty input decodes to no data.
ImpliedZeroRule ==
    /\ (op \in {"cobs_decode_array", "cobs_decode_vector"}
            /\ res.status = "Ok")
        => res.out = Blocks(in_buf)
    /\ (op \in CobsrDecodeOps /\ res.status = "Ok" /\ ~OverClaims(in_buf))
        => res.out = Blocks(in_buf)
    /\ (op = "cobs_decode_vector" /\ res.status = "Ok"
            /\ LastBlockFull(in_buf))
        => cobs_decode_vector(Append(in_buf, 1)) = res
    /\ (op = "cobsr_decode_vector" /\ res.status = "Ok"
            /\ LastBlockFull(in_buf))
        => cobsr_decode_vector(Append(in_buf, 1)) = res
    /\ (op \in {"cobs_decode_vector", "cobsr_decode_vector"}
            /\ in_buf = <<>>)
        => res = Ok(<<>>)

\* A frame of an empty block and a full last block was decoded: a zero for
\* the first block, none for the last.
ImpliedZeroRuleWitness ==
    /\ op = "cobs_decode_vector"
    /\ res.status = "Ok"
    /\ LastBlockFull(in_buf)
    /\ in_buf[1] = 1
    /\ Len(res.out) = 255
    /\ res.out[1] = 0

(* ---------------------------------------------------------------------- *)
(* Properties of the lazy encoders pulled call by call (PullSpec)          *)
(* ---------------------------------------------------------------------- *)

\* C26: after any number of calls of next() of a lazy encoder,
\* 0 <= hold_read_i <= hold_write_i <= 254; no call has indexed hold_buf at
\* 255 or beyond (which panics); and the COBS/R decrement of hold_write_i
\* has left it at or above hold_read_i and 0.
HoldBufferInvariant ==
    op \in EncodeIterators
        => /\ 0 <= iter.hold_read_i
           /\ iter.hold_read_i <= iter.hold_write_i
           /\ iter.hold_write_i <= 254
           /\ ~pull.panic

\* The COBS/R encoder has held 254 bytes ending in 0xFF, found the input
\* at its end and taken the last byte back out of the hold buffer.
HoldBufferInvariantWitness ==
    /\ op = "cobsr::EncodeIterator"
    /\ Len(in_buf) = 254
    /\ pull.n = 1
    /\ pull.item = 255
    /\ iter.eof
    /\ iter.hold_read_i = 0
    /\ iter.hold_write_i = 253

\* encode_max_output_size of the iterator's family for its input.
MaxItems ==
    IF op = "cobs::EncodeIterator"
    THEN cobs_encode_max_output_size(Len(in_buf))
    ELSE cobsr_encode_max_output_size(Len(in_buf))

\* C27: one call of next() of a lazy encoder reads at most 254 input bytes
\* (COBS) or 255 (COBS/R, with the byte read ahead); and the encoder of a
\* finite input ends: it has yielded end-of-sequence by the time it has
\* been called more often than encode_max_output_size(len) times.
BoundedWorkPerPull ==
    /\ op = "cobs::EncodeIterator" => pull.read <= 254
    /\ op = "cobsr::EncodeIterator" => pull.read <= 255
    /\ op \in EncodeIterators
        => /\ ~pull.panic
           /\ ~pull.ended => pull.n <= MaxItems

\* One call of the COBS/R encoder read 255 bytes, a full block and the byte
\* after it, and the encoder later yielded end-of-sequence.
BoundedWorkPerPullWitness ==
    /\ op = "cobsr::EncodeIterator"
    /\ pull.n = 1
    /\ pull.read = 255
    /\ pull.item = 255
    /\ Len(in_buf) > 255

(* ---------------------------------------------------------------------- *)
(* End-of-sequence of the COBS/R decoder, and size_hint (PullSpec)         *)
(* ---------------------------------------------------------------------- *)

\* C28: once the best-effort lazy COBS/R decoder has yielded
\* end-of-sequence, every later call of next() yields end-of-sequence too
\* (the input iterator is one over a slice, which is fused).
CobsrDecoderEndIsStable ==
    [][(op = "cobsr::DecodeIterator" /\ pull.ended)
        => pull'.item = None]_vars

\* The items the remaining calls of next() of the lazy encoder will yield.
RemainingItems ==
    IF op = "cobs::EncodeIterator"
    THEN Collect(cobs_EncodeIterator_next, iter, MaxItems).out
    ELSE Collect(cobsr_EncodeIterator_next, iter, MaxItems).out

\* size_hint() of the lazy encoder as it stands.
SizeHint ==
    IF op = "cobs::EncodeIterator"
    THEN cobs_EncodeIterator_size_hint(iter)
    ELSE cobsr_EncodeIterator_size_hint(iter)

\* C29: after any number of calls of next() of a lazy encoder, size_hint()
\* is (lo, Some(hi)) with lo <= the number of items the remaining calls
\* will yield <= hi.
EncoderSizeHintValid ==
    op \in EncodeIterators
        => /\ SizeHint.lo <= Len(RemainingItems)
           /\ Len(RemainingItems) <= SizeHint.hi

(* ---------------------------------------------------------------------- *)
(* Independence of the prior contents of out_buf (Spec)                    *)
(* ---------------------------------------------------------------------- *)

\* What the array function called in this behaviour returns for in_buf and
\* a buffer of out_len bytes that all hold f.
ArrayCall(f) ==
    CASE op = "cobs_encode_array" ->
            cobs_encode_array(NewBuf(out_len, f), in_buf)
      [] op = "cobs_decode_array" ->
            cobs_decode_array(NewBuf(out_len, f), in_buf)
      [] op = "cobsr_encode_array" ->
            cobsr_encode_array(NewBuf(out_len, f), in_buf)
      [] op = "cobsr_decode_array" ->
            cobsr_decode_array(NewBuf(out_len, f), in_buf)

\* C30: the result of encode_array and decode_array of either family does
\* not depend on what out_buf held before the call: the same in_buf with a
\* buffer of the same length and other contents gives the same Ok slice or
\* the same error.
ResultIndependentOfBuffer ==
    op \in ArrayOps
        => \A f \in FillBytes \ {fill} : ArrayCall(f) = res

\* A decode into a buffer of 0x55 bytes returned data with a zero in it,
\* which the other buffer already held at that place.
ResultIndependentOfBufferWitness ==
    /\ op = "cobs_decode_array"
    /\ fill = 85
    /\ res.status = "Ok"
    /\ Len(res.out) = 2
    /\ res.out[1] = 0
    /\ out_len > Len(res.out)

====
